---- MODULE Spec2Model ----
(***************************************************************************)
(* Model of embedded-tf: the batch prediction handler LoadAndPredict, the  *)
(* Tensorflow process supervisor startAndWaitTF/copyAndCapture, the JSON   *)
(* line transcoder formatInput/formatOutput and the object tree copy.      *)
(*                                                                         *)
(* Two versions of the server are in the repository: Server.go stages the  *)
(* input and output trees on local disk ("staged"), the second source file *)
(* streams every input object through memory ("stream").                   *)
(*                                                                         *)
(* Go strings are modelled as sequences of one-character strings, so that  *)
(* HasPrefix, HasSuffix, LastIndex, SplitN, slicing, Contains and the      *)
(* byte order of names are computed as the code computes them.             *)
(***************************************************************************)
EXTENDS Integers, Sequences, FiniteSets, TLC

VARIABLES
    variant,    \* "staged" (Server.go) or "stream" (second source file)
    pc,         \* position of the handler LoadAndPredict
    query,      \* the request's query parameters model, input, output
    loc,        \* the (bucket, path) pairs extracted so far
    resp,       \* what the handler wrote to the ResponseWriter
    panicked,   \* the handler goroutine panicked (net/http recovers it)
    fs,         \* local file system: [dirs, files]
    store,      \* objects of the bucket: key -> content
    proc,       \* the tensorflow_model_server child process
    deferKill,  \* "defer cmd.Process.Kill()" is registered
    pipe,       \* bytes written to the child's stderr and not read yet
    writes,     \* what the child wrote to stderr during the wait, in order
    now,        \* seconds elapsed since startAndWaitTF started its wait
    reader,     \* the goroutine running copyAndCapture
    started,    \* the buffered channel "started" (capacity 1)
    waitErr,    \* result of startAndWaitTF
    work,       \* remaining items of the loop in progress
    trace,      \* the request's steps in the order they happened
    failed,     \* steps whose operation failed, in order
    tc          \* the transcoder call under test: [op, in, out]

vars == <<variant, pc, query, loc, resp, panicked, fs, store, proc, deferKill,
          pipe, writes, now, reader, started, waitErr, work, trace, failed, tc>>

handlerVars == <<variant, pc, query, loc, resp, panicked, fs, store, proc,
                 deferKill, pipe, writes, now, reader, started, waitErr, work,
                 trace, failed>>

-----------------------------------------------------------------------------
(* Strings *)

\* The characters used, in increasing byte order.
Alphabet ==
    <<"\t", "\n", "\r", " ", "\"", ",", "-", ".", "/",
      "0", "1", "2", "3", "4", "5", "6", "7", "8", "9", ":",
      "A", "E", "H", "I", "P", "R", "S", "T",
      "[", "\\", "]", "_",
      "a", "b", "c", "d", "e", "f", "g", "i", "l", "m", "n", "o", "p", "q",
      "r", "s", "t", "u", "v", "x", "y", "z", "{", "}">>

Code(c) == CHOOSE i \in 1..Len(Alphabet) : Alphabet[i] = c

Min(a, b) == IF a < b THEN a ELSE b

\* s[i:] and s[:i] with Go's 0-based offsets
From(s, i) == SubSeq(s, i + 1, Len(s))
To(s, i) == SubSeq(s, 1, i)

HasPrefix(s, p) == Len(s) >= Len(p) /\ SubSeq(s, 1, Len(p)) = p
HasSuffix(s, p) == Len(s) >= Len(p) /\ SubSeq(s, Len(s) - Len(p) + 1, Len(s)) = p

\* strings.Contains
Contains(s, sub) ==
    \E i \in 1..(Len(s) - Len(sub) + 1) : SubSeq(s, i, i + Len(sub) - 1) = sub

\* strings.Index / strings.LastIndex for a one-character separator; -1 when absent
Index(s, c) ==
    IF \E i \in 1..Len(s) : s[i] = c
    THEN (CHOOSE i \in 1..Len(s) : s[i] = c /\ \A j \in 1..(i - 1) : s[j] # c) - 1
    ELSE -1
LastIndex(s, c) ==
    IF \E i \in 1..Len(s) : s[i] = c
    THEN (CHOOSE i \in 1..Len(s) : s[i] = c /\ \A j \in (i + 1)..Len(s) : s[j] # c) - 1
    ELSE -1

\* strings.SplitN(s, "/", 2): one piece when s holds no separator
SplitN2(s) ==
    IF Index(s, "/") < 0 THEN <<s>>
    ELSE <<To(s, Index(s, "/")), From(s, Index(s, "/") + 1)>>

\* byte-wise lexicographic order of two strings
LexLess(a, b) ==
    \E i \in 1..(Min(Len(a), Len(b)) + 1) :
        /\ \A j \in 1..(i - 1) : a[j] = b[j]
        /\ \/ i > Len(a) /\ i <= Len(b)
           \/ i <= Len(a) /\ i <= Len(b) /\ Code(a[i]) < Code(b[i])

RECURSIVE SortStrings(_)
SortStrings(S) ==
    IF S = {} THEN <<>>
    ELSE LET m == CHOOSE x \in S : \A y \in S \ {x} : LexLess(x, y)
         IN <<m>> \o SortStrings(S \ {m})

RECURSIVE Concat(_)
Concat(ss) == IF ss = <<>> THEN <<>> ELSE Head(ss) \o Concat(Tail(ss))

Range(f) == {f[x] : x \in DOMAIN f}

-----------------------------------------------------------------------------
(* encoding/json on the JSON texts the transcoder meets *)

\* One symbol standing for a run of 65536 spaces: a line holding it is longer
\* than a bufio.Scanner token may be, and JSON whitespace everywhere else.
BigSpace == "<65536 spaces>"
MaxScanTokenSize == 65536
Width(s) == Len(s) + Cardinality({i \in 1..Len(s) : s[i] = BigSpace}) * (MaxScanTokenSize - 1)

WS == {" ", "\t", "\r", "\n", BigSpace}
Digits == {"0", "1", "2", "3", "4", "5", "6", "7", "8", "9"}

At(s, i) == IF i >= 1 /\ i <= Len(s) THEN s[i] ELSE "EOF"
SkipWS(s, i) ==
    CHOOSE j \in i..(Len(s) + 1) :
        /\ j = Len(s) + 1 \/ s[j] \notin WS
        /\ \A k \in i..(j - 1) : s[k] \in WS

\* decoded values (what Unmarshal stores in an interface{}); numbers keep their
\* digits: the integers used are exactly representable as float64
NullV == [k |-> "null", s |-> <<>>, a |-> <<>>, keys |-> <<>>]
StrV(s) == [k |-> "str", s |-> s, a |-> <<>>, keys |-> <<>>]
NumV(s) == [k |-> "num", s |-> s, a |-> <<>>, keys |-> <<>>]
ArrV(a) == [k |-> "arr", s |-> <<>>, a |-> a, keys |-> <<>>]
ObjV(keys, a) == [k |-> "obj", s |-> <<>>, a |-> a, keys |-> keys]

ParseFail == [ok |-> FALSE, v |-> NullV, i |-> 0]
ParseOk(v, i) == [ok |-> TRUE, v |-> v, i |-> i]

\* the escapes \" \\ \/ \n \r \t of a JSON string literal
Unescape(e) ==
    CASE e = "n" -> "\n"
      [] e = "r" -> "\r"
      [] e = "t" -> "\t"
      [] OTHER -> e
ValidEscape(e) == e \in {"\"", "\\", "/", "n", "r", "t"}

\* the body of a string literal from position j on, up to the closing quote
RECURSIVE StrBody(_, _, _)
StrBody(s, j, acc) ==
    LET c == At(s, j) IN
    IF j > Len(s) \/ c \in {"\n", "\r", "\t"} THEN ParseFail
    ELSE IF c = "\"" THEN ParseOk(StrV(acc), j + 1)
    ELSE IF c = "\\"
         THEN IF ValidEscape(At(s, j + 1))
              THEN StrBody(s, j + 2, Append(acc, Unescape(s[j + 1])))
              ELSE ParseFail
    ELSE StrBody(s, j + 1, Append(acc, c))

NumEnd(s, i) ==
    CHOOSE j \in i..(Len(s) + 1) :
        /\ j = Len(s) + 1 \/ s[j] \notin Digits
        /\ \A k \in i..(j - 1) : s[k] \in Digits
ParseNumber(s, i) ==
    LET j == NumEnd(s, i) IN
    IF j = i \/ (s[i] = "0" /\ j > i + 1) THEN ParseFail
    ELSE ParseOk(NumV(SubSeq(s, i, j - 1)), j)

RECURSIVE ParseValue(_, _)
RECURSIVE ParseElems(_, _, _)
RECURSIVE ParseMembers(_, _, _, _)
RECURSIVE AfterElem(_, _, _)
RECURSIVE AfterMember(_, _, _, _, _)
RECURSIVE AfterKey(_, _, _, _)

\* after the element r of an array: a comma and the next element, or the end
AfterElem(s, acc, r) ==
    IF ~r.ok THEN ParseFail
    ELSE IF At(s, SkipWS(s, r.i)) = ","
         THEN ParseElems(s, SkipWS(s, SkipWS(s, r.i) + 1), Append(acc, r.v))
    ELSE IF At(s, SkipWS(s, r.i)) = "]"
         THEN ParseOk(ArrV(Append(acc, r.v)), SkipWS(s, r.i) + 1)
    ELSE ParseFail

\* the elements of an array, from the first element on
ParseElems(s, i, acc) == AfterElem(s, acc, ParseValue(s, i))

\* after the member k: r of an object: a comma and the next member, or the end
AfterMember(s, keys, acc, k, r) ==
    IF ~r.ok THEN ParseFail
    ELSE IF At(s, SkipWS(s, r.i)) = ","
         THEN ParseMembers(s, SkipWS(s, SkipWS(s, r.i) + 1), Append(keys, k.v.s),
                           Append(acc, r.v))
    ELSE IF At(s, SkipWS(s, r.i)) = "}"
         THEN ParseOk(ObjV(Append(keys, k.v.s), Append(acc, r.v)), SkipWS(s, r.i) + 1)
    ELSE ParseFail

\* after the key k of a member: a colon and the member's value
AfterKey(s, keys, acc, k) ==
    IF ~k.ok \/ At(s, SkipWS(s, k.i)) # ":" THEN ParseFail
    ELSE AfterMember(s, keys, acc, k, ParseValue(s, SkipWS(s, SkipWS(s, k.i) + 1)))

\* the members of an object, from the first key on
ParseMembers(s, i, keys, acc) ==
    IF At(s, i) # "\"" THEN ParseFail
    ELSE AfterKey(s, keys, acc, StrBody(s, i + 1, <<>>))

ParseValue(s, i) ==
    LET c == At(s, i) IN
    CASE c = "\"" -> StrBody(s, i + 1, <<>>)
      [] c \in Digits -> ParseNumber(s, i)
      [] c = "[" -> IF At(s, SkipWS(s, i + 1)) = "]"
                    THEN ParseOk(ArrV(<<>>), SkipWS(s, i + 1) + 1)
                    ELSE ParseElems(s, SkipWS(s, i + 1), <<>>)
      [] c = "{" -> IF At(s, SkipWS(s, i + 1)) = "}"
                    THEN ParseOk(ObjV(<<>>, <<>>), SkipWS(s, i + 1) + 1)
                    ELSE ParseMembers(s, SkipWS(s, i + 1), <<>>, <<>>)
      [] c = "n" -> IF SubSeq(s, i, Min(i + 3, Len(s))) = <<"n", "u", "l", "l">>
                    THEN ParseOk(NullV, i + 4)
                    ELSE ParseFail
      [] OTHER -> ParseFail

\* json.Unmarshal(data, &v) for v interface{}: one value, then only whitespace
WholeText(s, r) == IF r.ok /\ SkipWS(s, r.i) = Len(s) + 1 THEN r ELSE ParseFail
Unmarshal(s) == WholeText(s, ParseValue(s, SkipWS(s, 1)))

\* json.Marshal of a decoded value: compact, object keys sorted, the last value
\* of a repeated key
RECURSIVE EscapeString(_)
EscapeString(s) ==
    IF s = <<>> THEN <<>>
    ELSE (CASE Head(s) = "\"" -> <<"\\", "\"">>
            [] Head(s) = "\\" -> <<"\\", "\\">>
            [] Head(s) = "\n" -> <<"\\", "n">>
            [] Head(s) = "\r" -> <<"\\", "r">>
            [] Head(s) = "\t" -> <<"\\", "t">>
            [] OTHER -> <<Head(s)>>) \o EscapeString(Tail(s))

Quote(s) == <<"\"">> \o EscapeString(s) \o <<"\"">>

RECURSIVE Join(_, _)
Join(ss, sep) ==
    IF ss = <<>> THEN <<>>
    ELSE IF Len(ss) = 1 THEN ss[1]
    ELSE ss[1] \o sep \o Join(Tail(ss), sep)

LastOf(v, key) ==
    v.a[CHOOSE i \in 1..Len(v.keys) :
            v.keys[i] = key /\ \A j \in (i + 1)..Len(v.keys) : v.keys[j] # key]

RECURSIVE Marshal(_)
Marshal(v) ==
    CASE v.k = "null" -> <<"n", "u", "l", "l">>
      [] v.k = "num" -> v.s
      [] v.k = "str" -> Quote(v.s)
      [] v.k = "arr" -> <<"[">> \o Join([i \in 1..Len(v.a) |-> Marshal(v.a[i])], <<",">>) \o <<"]">>
      [] v.k = "obj" ->
            LET ks == SortStrings(Range(v.keys)) IN
            <<"{">> \o Join([i \in 1..Len(ks) |->
                              Quote(ks[i]) \o <<":">> \o Marshal(LastOf(v, ks[i]))],
                            <<",">>) \o <<"}">>

-----------------------------------------------------------------------------
(* The JSON line transcoder: formatInput and formatOutput *)

KeyInstances == <<"i", "n", "s", "t", "a", "n", "c", "e", "s">>
KeyPredictions == <<"p", "r", "e", "d", "i", "c", "t", "i", "o", "n", "s">>
KeyError == <<"e", "r", "r", "o", "r">>

\* bufio.ScanLines: the tokens between newlines, a trailing carriage return
\* dropped, no token for the empty rest after the last newline
DropCR(l) == IF Len(l) > 0 /\ l[Len(l)] = "\r" THEN To(l, Len(l) - 1) ELSE l
RECURSIVE ScanLines(_)
ScanLines(s) ==
    IF s = <<>> THEN <<>>
    ELSE IF Index(s, "\n") < 0 THEN <<s>>
    ELSE <<To(s, Index(s, "\n"))>> \o ScanLines(From(s, Index(s, "\n") + 1))

\* the loop "for scanner.Scan()" of formatInput over the remaining lines: Scan
\* gives up on a line that does not fit its buffer (scanner.Err() is then
\* ErrTooLong), a line that is no JSON value ends the function at once
RECURSIVE ScanLoop(_, _)
RECURSIVE AppendInstance(_, _, _)
\* the loop leaving at a line that is no JSON value with the values it has
AppendInstancePartial(lines, instances, r) ==
    IF ~r.ok THEN [err |-> "", v |-> instances]
    ELSE ScanLoop(Tail(lines), Append(instances, r.v))
AppendInstance(lines, instances, r) ==
    IF ~r.ok THEN [err |-> "json: syntax error", v |-> <<>>]
    ELSE ScanLoop(Tail(lines), Append(instances, r.v))
ScanLoop(lines, instances) ==
    IF lines = <<>> THEN [err |-> "", v |-> instances]
    ELSE IF Width(Head(lines)) >= MaxScanTokenSize
         THEN [err |-> "bufio.Scanner: token too long", v |-> <<>>]
    ELSE AppendInstance(lines, instances, Unmarshal(DropCR(Head(lines))))

\* json.Marshal(i) for an inputPrediction whose Instances start as a nil
\* slice: null when no line was appended
MarshalInstancesNil(r) ==
    IF r.err # "" THEN [err |-> r.err, out |-> <<>>]
    ELSE [err |-> "",
          out |-> Marshal(ObjV(<<KeyInstances>>, <<IF r.v = <<>> THEN NullV ELSE ArrV(r.v)>>))]

\* json.Marshal(i) for the inputPrediction i holding the instances r.v
MarshalInstances(r) ==
    IF r.err # "" THEN [err |-> r.err, out |-> <<>>]
    ELSE [err |-> "", out |-> Marshal(ObjV(<<KeyInstances>>, <<ArrV(r.v)>>))]

\* formatInput: the JSON lines of a file as {"instances":[...]}
formatInput(input) == MarshalInstances(ScanLoop(ScanLines(input), <<>>))

\* bytes.ReplaceAll(output, "\\", "\\\\")
RECURSIVE DoubleBackslashes(_)
DoubleBackslashes(s) ==
    IF s = <<>> THEN <<>>
    ELSE (IF Head(s) = "\\" THEN <<"\\", "\\">> ELSE <<Head(s)>>)
         \o DoubleBackslashes(Tail(s))

\* json.Unmarshal(output, &answer) for the struct tfAnswer: the body must be an
\* object (or null); "predictions" an array or null, "error" a string or null;
\* other keys are ignored
FieldOf(v, key, kind) ==
    IF v.k # "obj" \/ key \notin Range(v.keys) THEN [ok |-> TRUE, v |-> NullV]
    ELSE [ok |-> LastOf(v, key).k \in {kind, "null"}, v |-> LastOf(v, key)]
AnswerOf(r, p, e) ==
    IF ~r.ok \/ r.v.k \notin {"obj", "null"} \/ ~p.ok \/ ~e.ok
    THEN [ok |-> FALSE, Prediction |-> <<>>, Error |-> <<>>]
    ELSE [ok |-> TRUE, Prediction |-> p.v.a, Error |-> e.v.s]
AnswerFields(r) ==
    AnswerOf(r, FieldOf(r.v, KeyPredictions, "arr"), FieldOf(r.v, KeyError, "str"))
UnmarshalAnswer(s) == AnswerFields(Unmarshal(s))

\* the predictions joined by newlines, none after the last
PredictionLinesJoined(answer) ==
    IF ~answer.ok THEN [err |-> "json: cannot unmarshal", msg |-> <<>>, out |-> <<>>]
    ELSE IF answer.Error # <<>>
         THEN [err |-> "prediction error", msg |-> answer.Error, out |-> <<>>]
    ELSE [err |-> "", msg |-> <<>>,
          out |-> Join([i \in 1..Len(answer.Prediction) |->
                          Marshal(answer.Prediction[i])], <<"\n">>)]

\* the rest of formatOutput, the answer decoded: errors.New(answer.Error)
\* (msg is the text of the error), or one line per prediction
PredictionLines(answer) ==
    IF ~answer.ok THEN [err |-> "json: cannot unmarshal", msg |-> <<>>, out |-> <<>>]
    ELSE IF answer.Error # <<>>
         THEN [err |-> "prediction error", msg |-> answer.Error, out |-> <<>>]
    ELSE [err |-> "", msg |-> <<>>,
          out |-> Concat([i \in 1..Len(answer.Prediction) |->
                            Marshal(answer.Prediction[i]) \o <<"\n">>])]

\* formatOutput: the predictions of a response body, one compact JSON per line
formatOutput(input) == PredictionLines(UnmarshalAnswer(DoubleBackslashes(input)))

-----------------------------------------------------------------------------
(* Program constants *)

BUCKET_PREFIX == <<"g", "s", ":", "/", "/">>
OUTPUT_PREFIX == <<"p", "r", "e", "d", "i", "c", "t", "i", "o", "n", "_">>
LOCAL_MODEL_PATH == <<"/", "t", "m", "p", "/", "m", "o", "d", "e", "l", "/">>
MODEL_DUMMY_VERSION == <<"0", "0", "0", "0", "0", "0", "/">>
LOCAL_INPUT_PATH == <<"/", "t", "m", "p", "/", "i", "n", "p", "u", "t", "/">>
LOCAL_OUTPUT_PATH == <<"/", "t", "m", "p", "/", "o", "u", "t", "p", "u", "t", "/">>
TF_TIMEOUT == 30
BufSize == 1024
ReadyMarker ==
    <<"E", "x", "p", "o", "r", "t", "i", "n", "g", " ", "H", "T", "T", "P", "/",
      "R", "E", "S", "T", " ", "A", "P", "I">>
Slash == <<"/">>

-----------------------------------------------------------------------------
(* The local file system: fs.dirs is the set of directories, fs.files maps  *)
(* every regular file to its content; paths are kept without trailing slash; *)
(* fs.created lists the paths os.Create has opened, in order                 *)

Clean(p) == IF Len(p) > 1 /\ p[Len(p)] = "/" THEN To(p, Len(p) - 1) ELSE p
Parent(p) == IF LastIndex(Clean(p), "/") <= 0 THEN Slash
             ELSE To(Clean(p), LastIndex(Clean(p), "/"))
BaseName(p) == From(Clean(p), LastIndex(Clean(p), "/") + 1)
IsUnder(p, d) == HasPrefix(p, Clean(d) \o Slash)

EmptyFS == [dirs |-> {Slash, <<"/", "t", "m", "p">>}, files |-> <<>>, created |-> <<>>]
IsFile(f, p) == p \in DOMAIN f.files
IsDir(f, p) == Clean(p) \in f.dirs

\* p and its ancestors, the root left out
Ancestors(p) ==
    {Clean(p)} \cup {To(Clean(p), i - 1) : i \in {j \in 2..Len(Clean(p)) : Clean(p)[j] = "/"}}

\* os.MkdirAll (its error is dropped by every caller): the missing directories
\* down to p, none at or below a path that is a regular file
MkdirAll(f, p) ==
    [f EXCEPT !.dirs = @ \cup {d \in Ancestors(p) :
                                 \A a \in Ancestors(d) : ~IsFile(f, a)}]

\* os.RemoveAll
RemoveAll(f, p) ==
    [dirs |-> {d \in f.dirs : d # Clean(p) /\ ~IsUnder(d, p)},
     files |-> [x \in {y \in DOMAIN f.files : y # Clean(p) /\ ~IsUnder(y, p)}
                  |-> f.files[x]],
     created |-> f.created]

\* os.Create can succeed: the parent is a directory and p is not one
CanCreate(f, p) == IsDir(f, Parent(p)) /\ ~IsDir(f, p) /\ BaseName(p) # <<>>

\* os.Create followed by io.Copy of content
WriteFile(f, p, content) ==
    [f EXCEPT !.files = [x \in DOMAIN f.files \cup {p} |->
                            IF x = p THEN content ELSE f.files[x]],
              !.created = Append(@, p)]

\* the names directly under directory p, the last name first
ReadDirReversed(f, p) ==
    LET names == SortStrings({BaseName(x) : x \in {y \in f.dirs \cup DOMAIN f.files :
                                         y # Slash /\ Parent(y) = Clean(p) /\ y # Clean(p)}})
    IN  [i \in 1..Len(names) |-> names[Len(names) + 1 - i]]

\* ioutil.ReadDir: the names directly under directory p, sorted by name
ReadDir(f, p) ==
    SortStrings({BaseName(x) : x \in {y \in f.dirs \cup DOMAIN f.files :
                                         y # Slash /\ Parent(y) = Clean(p) /\ y # Clean(p)}})

-----------------------------------------------------------------------------
(* The object store: store maps "bucket/key" to the object's content.  A    *)
(* call on a name in bad fails (network or permission error).               *)

ObjName(bucket, key) == bucket \o Slash \o key

Put(st, name, content) ==
    [x \in DOMAIN st \cup {name} |-> IF x = name THEN content ELSE st[x]]

\* bucket.Objects(ctx, &storage.Query{Prefix: path}): the keys of the bucket
\* that start with path, in increasing byte order
ListObjects(st, bucket, path) ==
    SortStrings({From(n, Len(bucket) + 1) :
                    n \in {x \in DOMAIN st : HasPrefix(x, ObjName(bucket, path))}})

Ok(f) == [err |-> "", fs |-> f]
Err(msg, f) == [err |-> msg, fs |-> f]

\* downloadFile: one object to the local file dest
downloadFile(st, f, bucket, path, dest, bad) ==
    IF HasSuffix(path, Slash) THEN Err("downloadFiles: path must be GCS file", f)
    ELSE IF ObjName(bucket, path) \notin DOMAIN st \/ ObjName(bucket, path) \in bad
         THEN Err("storage: object read failed", f)
    ELSE IF ~CanCreate(f, dest) \/ dest \in bad THEN Err("open: create failed", f)
    ELSE Ok(WriteFile(f, dest, st[ObjName(bucket, path)]))

\* downloadFiles of Server.go: every key under path; a key ending in "/" is
\* a directory and is downloaded by a recursive call
RECURSIVE downloadFiles(_, _, _, _, _, _)
RECURSIVE downloadLoop(_, _, _, _, _, _, _)
\* the download that makes its directory before it looks at the path
downloadFilesMkdirFirst(st, f, bucket, path, localDest, bad) ==
    IF ~HasSuffix(path, Slash)
    THEN Err("downloadFiles: path must be GCS directory", MkdirAll(f, localDest))
    ELSE IF ObjName(bucket, path) \in bad THEN Err("storage: list failed", MkdirAll(f, localDest))
    ELSE downloadLoop(ListObjects(st, bucket, path), st, MkdirAll(f, localDest),
                      bucket, path, localDest, bad)
downloadLoop(names, st, f, bucket, path, localDest, bad) ==
    IF names = <<>> THEN Ok(f)
    ELSE LET n == From(Head(names), Len(path))
             r == IF n = <<>> THEN Ok(f)
                  ELSE IF HasSuffix(n, Slash)
                       THEN downloadFiles(st, f, bucket, Head(names), localDest \o n, bad)
                       ELSE downloadFile(st, f, bucket, Head(names), localDest \o n, bad)
         IN  IF r.err # "" THEN r
             ELSE downloadLoop(Tail(names), st, r.fs, bucket, path, localDest, bad)
downloadFiles(st, f, bucket, path, localDest, bad) ==
    IF ~HasSuffix(path, Slash) THEN Err("downloadFiles: path must be GCS directory", f)
    ELSE IF ObjName(bucket, path) \in bad THEN Err("storage: list failed", MkdirAll(f, localDest))
    ELSE downloadLoop(ListObjects(st, bucket, path), st, MkdirAll(f, localDest),
                      bucket, path, localDest, bad)

\* listGcsFiles of the second source file: one (RelativePath, FileName) entry
\* for every key under path that is not path itself nor a directory key
RECURSIVE listLoop(_, _)
\* the loop that leaves out the root only, not the directory keys
listLoopKeepingDirs(names, path) ==
    IF names = <<>> THEN <<>>
    ELSE LET n == From(Head(names), LastIndex(path, "/") + 1) IN
         (IF n = <<>> THEN <<>>
          ELSE <<[RelativePath |-> To(n, LastIndex(n, "/") + 1),
                  FileName |-> From(n, LastIndex(n, "/") + 1)]>>)
         \o listLoop(Tail(names), path)
listLoop(names, path) ==
    IF names = <<>> THEN <<>>
    ELSE LET n == From(Head(names), LastIndex(path, "/") + 1) IN
         (IF n = <<>> \/ HasSuffix(n, Slash) THEN <<>>
          ELSE <<[RelativePath |-> To(n, LastIndex(n, "/") + 1),
                  FileName |-> From(n, LastIndex(n, "/") + 1)]>>)
         \o listLoop(Tail(names), path)
listGcsFiles(st, bucket, path, bad) ==
    IF ObjName(bucket, path) \in bad THEN [err |-> "storage: list failed", list |-> <<>>]
    ELSE [err |-> "", list |-> listLoop(ListObjects(st, bucket, path), path)]

\* downloadFiles of the second source file: every listed entry to
\* localDest + RelativePath + FileName
RECURSIVE downloadEntries(_, _, _, _, _, _, _)
downloadEntries(list, st, f, bucket, path, localDest, bad) ==
    IF list = <<>> THEN Ok(f)
    ELSE LET l == Head(list)
             f1 == MkdirAll(f, localDest \o l.RelativePath)
             src == ObjName(bucket, path \o l.RelativePath \o l.FileName)
             dest == localDest \o l.RelativePath \o l.FileName
         IN  IF src \notin DOMAIN st \/ src \in bad THEN Err("storage: object read failed", f1)
             ELSE IF ~CanCreate(f1, dest) \/ dest \in bad THEN Err("open: create failed", f1)
             ELSE downloadEntries(Tail(list), st, WriteFile(f1, dest, st[src]),
                                  bucket, path, localDest, bad)
downloadFilesStream(st, f, bucket, path, localDest, bad) ==
    IF ~HasSuffix(path, Slash) THEN Err("downloadFiles: path must be GCS directory", f)
    ELSE LET l == listGcsFiles(st, bucket, path, bad) IN
         IF l.err # "" THEN Err(l.err, f)
         ELSE downloadEntries(l.list, st, f, bucket, path, localDest, bad)

\* uploadFile: every regular file below localPath to path + its relative name,
\* directories by a recursive call; log lists the objects written, in order
RECURSIVE uploadFile(_, _, _, _, _, _)
RECURSIVE uploadLoop(_, _, _, _, _, _, _, _)
uploadLoop(names, st, log, f, bucket, path, localPath, bad) ==
    IF names = <<>> THEN [err |-> "", store |-> st, log |-> log]
    ELSE LET name == Head(names)
             r == IF IsDir(f, localPath \o name)
                  THEN uploadFile(st, f, bucket, path \o name \o Slash,
                                  localPath \o name \o Slash, bad)
                  ELSE IF ~IsFile(f, localPath \o name) \/ (localPath \o name) \in bad
                       THEN [err |-> "open: failed", store |-> st, log |-> <<>>]
                  ELSE IF ObjName(bucket, path \o name) \in bad
                       THEN [err |-> "storage: write failed", store |-> st, log |-> <<>>]
                  ELSE [err |-> "",
                        store |-> Put(st, ObjName(bucket, path \o name),
                                      f.files[localPath \o name]),
                        log |-> <<ObjName(bucket, path \o name)>>]
         IN  IF r.err # "" THEN [r EXCEPT !.log = log \o r.log]
             ELSE uploadLoop(Tail(names), r.store, log \o r.log, f, bucket, path,
                             localPath, bad)
uploadFile(st, f, bucket, path, localPath, bad) ==
    LET dir == IF HasSuffix(path, Slash) THEN path ELSE path \o Slash IN
    IF ~IsDir(f, localPath) THEN [err |-> "readdir: failed", store |-> st, log |-> <<>>]
    ELSE uploadLoop(ReadDir(f, localPath), st, <<>>, f, bucket, dir, localPath, bad)

\* The walk of makePredictions (Server.go) over the staged input tree, as the
\* list of its steps: "mkdir" for os.MkdirAll(outputPath) on entering a
\* directory, "file" for one input file, "fail" where ioutil.ReadDir fails.
RECURSIVE predictionWalk(_, _, _)
predictionWalk(f, inputPath, outputPath) ==
    IF ~IsDir(f, inputPath) THEN <<[op |-> "fail", src |-> inputPath, dst |-> outputPath]>>
    ELSE LET names == ReadDir(f, inputPath) IN
         <<[op |-> "mkdir", src |-> inputPath, dst |-> outputPath]>>
         \o Concat([i \in 1..Len(names) |->
                IF IsDir(f, inputPath \o names[i])
                THEN predictionWalk(f, inputPath \o names[i] \o Slash,
                                    outputPath \o names[i] \o Slash)
                ELSE <<[op |-> "file", src |-> inputPath \o names[i],
                        dst |-> outputPath \o OUTPUT_PREFIX \o names[i]]>>])

\* The loop of makePredictions (second source file) over the listed inputs
streamWalk(list, rootInputPath, outputPath) ==
    [i \in 1..Len(list) |->
        [op |-> "file",
         src |-> rootInputPath \o list[i].RelativePath \o list[i].FileName,
         dst |-> outputPath \o list[i].RelativePath \o list[i].FileName]]

-----------------------------------------------------------------------------
(* Query parameters *)

\* extractLocation: (bucket, path) of "gs://bucket/path"; s[1] is read without
\* a length check, so a location without "/" after the bucket panics
extractLocation(location) ==
    IF ~HasPrefix(location, BUCKET_PREFIX)
    THEN [err |-> "location must start with 'gs://'", panic |-> FALSE,
          bucket |-> <<>>, path |-> <<>>]
    ELSE LET s == SplitN2(From(location, Len(BUCKET_PREFIX))) IN
         IF Len(s) < 2
         THEN [err |-> "", panic |-> TRUE, bucket |-> <<>>, path |-> <<>>]
         ELSE [err |-> "", panic |-> FALSE, bucket |-> s[1], path |-> s[2]]

\* getParam: the parameter must be present and not empty
getParam(q, paramName) ==
    IF ~q[paramName].present \/ Len(q[paramName].value) < 1
    THEN [err |-> "Query Param is missing", panic |-> FALSE,
          bucket |-> <<>>, path |-> <<>>]
    ELSE LET r == extractLocation(q[paramName].value) IN
         IF r.err # "" THEN [r EXCEPT !.err = "bad formatted"] ELSE r

-----------------------------------------------------------------------------
(* Bounds and the inputs drawn *)

MaxWrites == 2      \* writes of the child to its stderr during the wait
LogBlock == 1010    \* bytes of one log write that is not the readiness line
MaxLines == 3       \* lines of a file given to formatInput
MaxPreds == 2       \* predictions of a body given to formatOutput

Str1(c) == <<c>>
Present(v) == [present |-> TRUE, value |-> v]
Absent == [present |-> FALSE, value |-> <<>>]

BucketB == <<"b">>
GsB == BUCKET_PREFIX \o BucketB
\* the values a request may give to its three parameters
ModelValues ==
    {Absent, Present(<<"b", "/", "m", "/">>), Present(GsB), Present(GsB \o <<"/", "m">>)}
InputValues ==
    {Absent, Present(<<>>), Present(<<"b", "/", "i", "/">>), Present(GsB),
     Present(GsB \o <<"/", "i", "/">>), Present(GsB \o <<"/", "i", "/", "a">>)}
OutputValues ==
    {Absent, Present(<<"s", "3", ":", "/", "/", "b", "/", "o">>), Present(GsB),
     Present(GsB \o <<"/", "o">>)}
Queries == [model : ModelValues, input : InputValues, output : OutputValues]

\* file contents
GoodFile == <<"1", "\n", "2", "\n">>
BadFile == <<"{", "\n">>
LateBadFile == <<"1", "\n", "{", "\n">>
EmptyFile == <<>>
ModelFile == <<"p", "b">>

\* what the bucket may hold under the model prefix b/m/
ModelWorlds ==
    { [x \in {<<"b", "/", "m", "/", "s">>} |-> ModelFile],
      [x \in {<<"b", "/", "m", "/">>, <<"b", "/", "m", "/", "s">>,
              <<"b", "/", "m", "/", "v", "/">>, <<"b", "/", "m", "/", "v", "/", "x">>}
         |-> IF HasSuffix(x, Slash) THEN EmptyFile ELSE ModelFile] }

\* what the bucket may hold under the input prefix b/i/: the file a, the
\* directory b/ with its marker object, the file q/c without a marker for q/
KeyRoot == <<"b", "/", "i", "/">>
KeyA == KeyRoot \o <<"a">>
KeyBDir == KeyRoot \o <<"b", "/">>
KeyBC == KeyRoot \o <<"b", "/", "c">>
KeyQC == KeyRoot \o <<"q", "/", "c">>
InputKeys == {KeyRoot, KeyA, KeyBDir, KeyBC, KeyQC}
ContentsOf(k) ==
    IF HasSuffix(k, Slash) THEN {EmptyFile}
    ELSE IF k = KeyA THEN {GoodFile, BadFile, LateBadFile, EmptyFile}
    ELSE {GoodFile}
InputWorlds ==
    UNION {{w \in [K -> {GoodFile, BadFile, LateBadFile, EmptyFile}] : \A k \in K : w[k] \in ContentsOf(k)} :
              K \in SUBSET InputKeys}

\* bodies the inference server may answer with
BodyOk ==
    <<"{", "\"">> \o KeyPredictions \o <<"\"", ":", "[", "1", ",", "2", "]", "}">>
BodyError ==
    <<"{", "\"">> \o KeyError \o <<"\"", ":", "\"", "s", "\"", "}">>
\* {"error":"a\"b"}: a message that holds an escaped quote
BodyErrorQuoted ==
    <<"{", "\"">> \o KeyError \o <<"\"", ":", "\"", "a", "\\", "\"", "b", "\"", "}">>
Bodies == {BodyOk, BodyError, BodyErrorQuoted}

Merge(st, w) == [x \in DOMAIN st \cup DOMAIN w |-> IF x \in DOMAIN w THEN w[x] ELSE st[x]]
Faults(names) == {{}} \cup {{n} : n \in names}

Ev(step, arg) == [step |-> step, arg |-> arg]
NoResp == [status |-> 0, body |-> ""]
NoLoc == [bucket |-> <<>>, path |-> <<>>]
NoCall == [op |-> "none", src |-> <<>>, in |-> <<>>, out |-> [err |-> "", out |-> <<>>]]
\* foutput, err := formatOutput(resp.Body) as the handler's last transcoder call
Decoded(finput, body, fout) ==
    [op |-> "formatOutput", src |-> finput, in |-> body, out |-> fout]
Encoded(file, fin) == [op |-> "formatInput", src |-> <<>>, in |-> file, out |-> fin]
NoReader == [pc |-> "none", wake |-> 0, err |-> ""]

-----------------------------------------------------------------------------
(* LoadAndPredict *)

\* what an earlier request on the same instance left on the disk: its model,
\* and in Server.go the input a it staged and the predictions it wrote for it
StaleModel == LOCAL_MODEL_PATH \o MODEL_DUMMY_VERSION \o <<"o", "l", "d">>
StaleInput == LOCAL_INPUT_PATH \o <<"a">>
StaleOutput == LOCAL_OUTPUT_PATH \o OUTPUT_PREFIX \o <<"a">>
StaleFiles(v) ==
    IF v = "staged" THEN {StaleModel, StaleInput, StaleOutput} ELSE {StaleModel}
StaleFS(v) ==
    [dirs |-> EmptyFS.dirs \cup UNION {Ancestors(Parent(p)) : p \in StaleFiles(v)},
     files |-> [p \in StaleFiles(v) |-> IF p = StaleModel THEN ModelFile ELSE GoodFile],
     created |-> <<>>]

Init ==
    /\ variant \in {"staged", "stream"}
    /\ pc = "getModel"
    /\ query \in Queries
    /\ loc = [model |-> NoLoc, input |-> NoLoc, output |-> NoLoc]
    /\ resp = NoResp
    /\ panicked = FALSE
    /\ fs \in {EmptyFS, StaleFS(variant)}
    /\ store = <<>>
    /\ proc = "none"
    /\ deferKill = FALSE
    /\ pipe = <<>>
    /\ writes = <<>>
    /\ now = 0
    /\ reader = NoReader
    /\ started = <<>>
    /\ waitErr = ""
    /\ work = <<>>
    /\ trace = <<>>
    /\ failed = <<>>
    /\ tc = NoCall

\* w.WriteHeader(status); fmt.Fprintln(w, body); return
Reply(status, body) ==
    /\ resp' = [status |-> status, body |-> body]
    /\ pc' = "return"

\* one "bucket, path, err := getParam(r, name)" with its error branch
Validate(paramName, here, next) ==
    /\ pc = here
    /\ trace' = Append(trace, Ev("validate", <<>>))
    /\ LET r == getParam(query, paramName) IN
        IF r.panic
        THEN /\ panicked' = TRUE
             /\ pc' = "return"
             /\ failed' = Append(failed, "validate")
             /\ UNCHANGED <<loc, resp>>
        ELSE IF r.err # ""
        THEN /\ Reply(400, r.err)
             /\ failed' = Append(failed, "validate")
             /\ UNCHANGED <<loc, panicked>>
        ELSE /\ loc' = [loc EXCEPT ![paramName] =
                          [bucket |-> r.bucket,
                           path |-> IF paramName = "model" /\ ~HasSuffix(r.path, Slash)
                                    THEN r.path \o Slash ELSE r.path]]
             /\ pc' = next
             /\ UNCHANGED <<resp, panicked, failed>>
    /\ UNCHANGED <<variant, query, fs, store, proc, deferKill, pipe, writes, now,
                   reader, started, waitErr, work, tc>>

GetModelParam == Validate("model", "getModel", "getInput")
GetInputParam == Validate("input", "getInput", "getOutput")
GetOutputParam == Validate("output", "getOutput", "clear")

\* the clearing that leaves the input and output directories as they are
ClearStagingModelOnly ==
    /\ pc = "clear"
    /\ fs' = RemoveAll(fs, LOCAL_MODEL_PATH)
    /\ pc' = "newClient"
    /\ trace' = Append(trace, Ev("clear", SortStrings(DOMAIN fs.files \ DOMAIN fs'.files)))
    /\ UNCHANGED <<variant, query, loc, resp, panicked, store, proc, deferKill, pipe,
                   writes, now, reader, started, waitErr, work, failed, tc>>

\* "Clear the previous execution": Server.go removes the three staging
\* directories, the second source file only the model directory (the event
\* lists the files that were removed)
ClearStaging ==
    /\ pc = "clear"
    /\ fs' = IF variant = "staged"
             THEN RemoveAll(RemoveAll(RemoveAll(fs, LOCAL_MODEL_PATH), LOCAL_INPUT_PATH),
                            LOCAL_OUTPUT_PATH)
             ELSE RemoveAll(fs, LOCAL_MODEL_PATH)
    /\ pc' = "newClient"
    /\ trace' = Append(trace, Ev("clear", SortStrings(DOMAIN fs.files \ DOMAIN fs'.files)))
    /\ UNCHANGED <<variant, query, loc, resp, panicked, store, proc, deferKill, pipe,
                   writes, now, reader, started, waitErr, work, failed, tc>>

\* storage.NewClient(ctx)
NewClient ==
    /\ pc = "newClient"
    /\ trace' = Append(trace, Ev("newClient", <<>>))
    /\ \E ok \in BOOLEAN :
        IF ok THEN pc' = "downloadModel" /\ UNCHANGED <<resp, failed>>
        ELSE /\ Reply(500, "error when creating storage client")
             /\ failed' = Append(failed, "newClient")
    /\ UNCHANGED <<variant, query, loc, panicked, fs, store, proc, deferKill, pipe,
                   writes, now, reader, started, waitErr, work, tc>>

\* downloadFiles as each version of the server defines it
Download(st, f, bucket, path, localDest, bad) ==
    IF variant = "staged" THEN downloadFiles(st, f, bucket, path, localDest, bad)
    ELSE downloadFilesStream(st, f, bucket, path, localDest, bad)

\* "Download model".  The bucket is outside the program: what it holds under
\* a prefix is fixed when the request first lists that prefix.
DownloadModel ==
    /\ pc = "downloadModel"
    /\ trace' = Append(trace, Ev("downloadModel", <<>>))
    /\ \E w \in ModelWorlds :
       \E bad \in Faults(DOMAIN w) :
        LET r == Download(Merge(store, w), fs, loc.model.bucket, loc.model.path,
                          LOCAL_MODEL_PATH \o MODEL_DUMMY_VERSION, bad)
        IN  /\ store' = Merge(store, w)
            /\ fs' = r.fs
            /\ IF r.err # ""
               THEN /\ Reply(500, "error when downloading model files")
                    /\ failed' = Append(failed, "downloadModel")
               ELSE pc' = "start" /\ UNCHANGED <<resp, failed>>
    /\ UNCHANGED <<variant, query, loc, panicked, proc, deferKill, pipe, writes, now,
                   reader, started, waitErr, work, tc>>

-----------------------------------------------------------------------------
(* startAndWaitTF, copyAndCapture and the child process *)

\* cmd.Start(): the child runs and the goroutine calling copyAndCapture is
\* started, or the launch fails and startAndWaitTF returns the error
StartTF ==
    /\ pc = "start"
    /\ trace' = Append(trace, Ev("start", <<>>))
    /\ \E ok \in BOOLEAN :
        IF ok
        THEN /\ proc' = "running"
             /\ reader' = [pc |-> "sleep", wake |-> 1, err |-> ""]
             /\ now' = 0
             /\ pc' = "wait"
             /\ UNCHANGED <<waitErr, failed>>
        ELSE /\ waitErr' = "exec: start failed"
             /\ pc' = "afterWait"
             /\ failed' = Append(failed, "start")
             /\ UNCHANGED <<proc, reader, now>>
    /\ UNCHANGED <<variant, query, loc, resp, panicked, fs, store, deferKill, pipe,
                   writes, started, work, tc>>

Filler(n) == [i \in 1..n |-> "."]

\* seconds one read of every block the child may have written takes, the
\* sleep before the first read included
Slack == MaxWrites + 1

\* the child writes one block of log text, or the readiness line, to stderr;
\* writes records which, and for the readiness line whether the timer still
\* had Slack seconds to run ("ready") or not ("late")
ChildWrite ==
    /\ pc = "wait"
    /\ proc = "running"
    /\ Len(writes) < MaxWrites
    /\ \/ /\ pipe' = pipe \o Filler(LogBlock)
          /\ writes' = Append(writes, "log")
       \/ /\ pipe' = pipe \o ReadyMarker
          /\ writes' = Append(writes, IF now + Slack <= TF_TIMEOUT THEN "ready" ELSE "late")
    /\ UNCHANGED <<variant, pc, query, loc, resp, panicked, fs, store, proc,
                   deferKill, now, reader, started, waitErr, work, trace, failed, tc>>

\* the child exits during its start: the write end of the pipe is closed
ChildExit ==
    /\ pc = "wait"
    /\ proc = "running"
    /\ proc' = "exited"
    /\ UNCHANGED <<variant, pc, query, loc, resp, panicked, fs, store, deferKill,
                   pipe, writes, now, reader, started, waitErr, work, trace, failed, tc>>

\* strings.Contains(string(d), "Exporting HTTP/REST API") on the chunk just read
ChunkReady(d) == Contains(d, ReadyMarker)

\* r.Read(buf[:]) can return: there are bytes, or the pipe is closed
ReadReturns == pipe # <<>> \/ proc # "running"
\* the sleep of one second at the top of the loop is over
Awake == pc # "wait" \/ now >= reader.wake

\* one turn of the loop of copyAndCapture after its sleep: read at most
\* BufSize bytes, write them to os.Stderr, look for the readiness line
ReaderRead ==
    /\ reader.pc = "sleep"
    /\ Awake
    /\ ReadReturns
    /\ IF pipe # <<>>
       THEN LET n == Min(BufSize, Len(pipe))
                d == To(pipe, n)
            IN  /\ pipe' = From(pipe, n)
                /\ \E written \in BOOLEAN :
                    reader' = IF ~written
                              THEN [pc |-> "sendFalse", wake |-> 0, err |-> "write failed"]
                              ELSE IF ChunkReady(d)
                              THEN [pc |-> "sendTrue", wake |-> 0, err |-> ""]
                              ELSE [pc |-> "sleep", wake |-> now + 1, err |-> ""]
       ELSE /\ reader' = [pc |-> "sendFalse", wake |-> 0, err |-> "EOF"]
            /\ UNCHANGED pipe
    /\ UNCHANGED <<variant, pc, query, loc, resp, panicked, fs, store, proc,
                   deferKill, writes, now, started, waitErr, work, trace, failed, tc>>

\* the goroutine that says nothing of the error of copyAndCapture
ReaderSendFalseSkipped ==
    /\ reader.pc = "sendFalse"
    /\ reader' = [reader EXCEPT !.pc = "sendTrue"]
    /\ UNCHANGED <<variant, pc, query, loc, resp, panicked, fs, store, proc,
                   deferKill, pipe, writes, now, started, waitErr, work, trace, failed, tc>>

\* "if errStderr != nil { started <- false }": the send needs room in the channel
ReaderSendFalse ==
    /\ reader.pc = "sendFalse"
    /\ Len(started) < 1
    /\ started' = Append(started, FALSE)
    /\ reader' = [reader EXCEPT !.pc = "sendTrue"]
    /\ UNCHANGED <<variant, pc, query, loc, resp, panicked, fs, store, proc,
                   deferKill, pipe, writes, now, waitErr, work, trace, failed, tc>>

\* "started <- true", reached after a failure too
ReaderSendTrue ==
    /\ reader.pc = "sendTrue"
    /\ Len(started) < 1
    /\ started' = Append(started, TRUE)
    /\ reader' = [reader EXCEPT !.pc = "done"]
    /\ UNCHANGED <<variant, pc, query, loc, resp, panicked, fs, store, proc,
                   deferKill, pipe, writes, now, waitErr, work, trace, failed, tc>>

\* "if res {...} else { return errStderr }" ... "return nil"
WaitResultIgnored(res, errStderr) == ""
WaitResult(res, errStderr) == IF res THEN "" ELSE errStderr

\* "case res := <-started"
SelectStarted ==
    /\ pc = "wait"
    /\ started # <<>>
    /\ started' = Tail(started)
    /\ waitErr' = WaitResult(Head(started), reader.err)
    /\ IF Head(started)
       THEN /\ trace' = Append(trace, Ev("ready", <<>>))
            /\ UNCHANGED failed
       ELSE /\ failed' = Append(failed, "start")
            /\ UNCHANGED trace
    /\ pc' = "afterWait"
    /\ now' = 0
    /\ UNCHANGED <<variant, query, loc, resp, panicked, fs, store, proc, deferKill,
                   pipe, writes, reader, work, tc>>

\* the timer of time.After(TF_TIMEOUT * time.Second) has fired
TimerFired(t) == t >= TF_TIMEOUT

\* "case <-time.After(TF_TIMEOUT * time.Second)"
SelectTimeout ==
    /\ pc = "wait"
    /\ TimerFired(now)
    /\ waitErr' = "timeout exceeded"
    /\ failed' = Append(failed, "start")
    /\ pc' = "afterWait"
    /\ now' = 0
    /\ UNCHANGED <<variant, query, loc, resp, panicked, fs, store, proc, deferKill,
                   pipe, writes, reader, started, work, trace, tc>>

\* One second passes during the wait.  A goroutine that can run does so before
\* the clock moves: the reader whose sleep is over and whose Read returns, a
\* send into the free channel, the select whose channel holds a value.
Tick ==
    /\ pc = "wait"
    /\ ~TimerFired(now)
    /\ started = <<>>
    /\ reader.pc \notin {"sendFalse", "sendTrue"}
    /\ ~(reader.pc = "sleep" /\ Awake /\ ReadReturns)
    /\ now' = now + 1
    /\ UNCHANGED <<variant, pc, query, loc, resp, panicked, fs, store, proc,
                   deferKill, pipe, writes, reader, started, waitErr, work, trace,
                   failed, tc>>

\* "defer cmd.Process.Kill()" follows the call whatever it returned
KillDeferredOnSuccess(err) == err = ""
KillDeferred(err) == TRUE

\* "if err != nil" after startAndWaitTF
StartFailedUnlessTimeout(err) == err # "" /\ err # "timeout exceeded"
StartFailed(err) == err # ""

\* "err = startAndWaitTF(cmd); defer cmd.Process.Kill(); if err != nil {...}"
\* Nothing reads the child's stderr once copyAndCapture has returned nil: what
\* the child writes from then on is left out.
AfterWait ==
    /\ pc = "afterWait"
    /\ deferKill' = KillDeferred(waitErr)
    /\ IF StartFailed(waitErr)
       THEN Reply(500, "error when starting tensorflow") /\ UNCHANGED <<pipe, writes>>
       ELSE /\ pc' = IF variant = "staged" THEN "downloadInput" ELSE "listInputs"
            /\ pipe' = <<>>
            /\ writes' = <<>>
            /\ UNCHANGED resp
    /\ UNCHANGED <<variant, query, loc, panicked, fs, store, proc, now,
                   reader, started, waitErr, work, trace, failed, tc>>

-----------------------------------------------------------------------------
(* Server.go: download the input, predict file by file, upload the output *)

\* "Download input": the tree when the path ends in "/", else the one file
downloadInput(st, f, bucket, pathInput, bad) ==
    IF HasSuffix(pathInput, Slash)
    THEN downloadFiles(st, f, bucket, pathInput, LOCAL_INPUT_PATH, bad)
    ELSE downloadFile(st, MkdirAll(f, LOCAL_INPUT_PATH), bucket, pathInput,
                      LOCAL_INPUT_PATH \o From(pathInput, LastIndex(pathInput, "/") + 1),
                      bad)

DownloadInput ==
    /\ pc = "downloadInput"
    /\ trace' = Append(trace, Ev("downloadInput", <<>>))
    /\ \E w \in InputWorlds :
       \E bad \in Faults(DOMAIN w) :
        LET r == downloadInput(Merge(store, w), fs, loc.input.bucket, loc.input.path, bad)
        IN  /\ store' = Merge(store, w)
            /\ fs' = r.fs
            /\ IF r.err # ""
               THEN /\ Reply(500, "error when downloading input files")
                    /\ failed' = Append(failed, "downloadInput")
                    /\ UNCHANGED work
               ELSE /\ pc' = "predict"
                    /\ work' = predictionWalk(r.fs, LOCAL_INPUT_PATH, LOCAL_OUTPUT_PATH)
                    /\ UNCHANGED <<resp, failed>>
    /\ UNCHANGED <<variant, query, loc, panicked, proc, deferKill, pipe, writes, now,
                   reader, started, waitErr, tc>>

\* where the handler goes when makePredictions has returned nil
AfterPredictions == IF variant = "staged" THEN "upload" ELSE "respond"

\* "_, err = io.Copy(o, ...)" of Server.go assigns the err of the enclosing
\* else block, which nothing reads: a failed write does not end the loop
CopyErrorReturned == FALSE

\* one step of the walk of makePredictions
PredictStaged ==
    /\ variant = "staged"
    /\ pc = "predict"
    /\ work # <<>>
    /\ LET item == Head(work)
           next == IF Len(work) = 1 THEN AfterPredictions ELSE "predict"
       IN
        CASE item.op = "fail" ->
                /\ Reply(500, "error during predictions")
                /\ failed' = Append(failed, "readdir")
                /\ UNCHANGED <<fs, work, trace, tc>>
          [] item.op = "mkdir" ->
                /\ fs' = MkdirAll(fs, item.dst)
                /\ work' = Tail(work)
                /\ pc' = next
                /\ UNCHANGED <<resp, failed, trace, tc>>
          [] item.op = "file" ->
                LET fin == formatInput(fs.files[item.src]) IN
                IF fin.err # ""
                THEN /\ Reply(500, "error during predictions")
                     /\ failed' = Append(failed, "encode")
                     /\ tc' = Encoded(fs.files[item.src], fin)
                     /\ UNCHANGED <<fs, work, trace>>
                ELSE \E answer \in Bodies \cup {<<>>} :
                     \E disk \in {"ok", "nocreate", "nowrite"} :
                        LET fout == formatOutput(answer) IN
                        /\ tc' = IF answer = <<>> THEN tc ELSE Decoded(fin.out, answer, fout)
                        /\ IF answer = <<>>
                           THEN /\ Reply(500, "error during predictions")
                                /\ failed' = Append(failed, "post")
                                /\ trace' = Append(trace, Ev("post", item.src))
                                /\ UNCHANGED <<fs, work>>
                           ELSE IF fout.err # ""
                           THEN /\ Reply(500, "error during predictions")
                                /\ failed' = Append(failed, "decode")
                                /\ trace' = Append(trace, Ev("post", item.src))
                                /\ UNCHANGED <<fs, work>>
                           ELSE IF disk = "nocreate" \/ ~CanCreate(fs, item.dst)
                           THEN /\ Reply(500, "error during predictions")
                                /\ failed' = Append(failed, "create")
                                /\ trace' = Append(trace, Ev("post", item.src))
                                /\ UNCHANGED <<fs, work>>
                           ELSE IF disk = "nowrite" /\ CopyErrorReturned
                           THEN /\ Reply(500, "error during predictions")
                                /\ failed' = Append(failed, "write")
                                /\ fs' = WriteFile(fs, item.dst, <<>>)
                                /\ trace' = Append(trace, Ev("post", item.src))
                                /\ UNCHANGED work
                           ELSE /\ fs' = WriteFile(fs, item.dst,
                                                   IF disk = "nowrite" THEN <<>> ELSE fout.out)
                                /\ failed' = IF disk = "nowrite" THEN Append(failed, "write")
                                             ELSE failed
                                /\ trace' = trace \o <<Ev("post", item.src), Ev("write", item.dst)>>
                                /\ work' = Tail(work)
                                /\ pc' = next
                                /\ UNCHANGED resp
    /\ UNCHANGED <<variant, query, loc, panicked, store, proc, deferKill, pipe, writes,
                   now, reader, started, waitErr>>

\* "err = uploadFile(...)" of LoadAndPredict (Server.go): err is not read
UploadErrorReturned == FALSE

\* "Upload file to storage", then the answer
Upload ==
    /\ pc = "upload"
    /\ LET clean == uploadFile(store, fs, loc.output.bucket, loc.output.path,
                               LOCAL_OUTPUT_PATH, {})
       IN \E bad \in Faults(Range(clean.log)) :
            LET r == uploadFile(store, fs, loc.output.bucket, loc.output.path,
                                LOCAL_OUTPUT_PATH, bad)
            IN  /\ store' = r.store
                /\ trace' = trace \o [i \in 1..Len(r.log) |-> Ev("upload", r.log[i])]
                /\ failed' = IF r.err # "" THEN Append(failed, "upload") ELSE failed
                /\ IF r.err # "" /\ UploadErrorReturned
                   THEN Reply(500, "error during upload")
                   ELSE pc' = "respond" /\ UNCHANGED resp
    /\ UNCHANGED <<variant, query, loc, panicked, fs, proc, deferKill, pipe, writes,
                   now, reader, started, waitErr, work, tc>>

-----------------------------------------------------------------------------
(* Second source file: list the inputs, then read, predict, write each one *)

\* makePredictions up to its loop
ListInputs ==
    /\ variant = "stream"
    /\ pc = "listInputs"
    /\ trace' = Append(trace, Ev("listInputs", <<>>))
    /\ \E w \in InputWorlds :
       \E bad \in Faults({ObjName(loc.input.bucket, loc.input.path)}) :
        LET l == listGcsFiles(Merge(store, w), loc.input.bucket, loc.input.path, bad)
            rootInputPath == To(loc.input.path, LastIndex(loc.input.path, "/") + 1)
            outputPath == IF HasSuffix(loc.output.path, Slash) THEN loc.output.path
                          ELSE loc.output.path \o Slash
        IN  /\ store' = Merge(store, w)
            /\ IF l.err # ""
               THEN /\ Reply(500, "error when making predictions")
                    /\ failed' = Append(failed, "listInputs")
                    /\ UNCHANGED work
               ELSE /\ work' = streamWalk(l.list, rootInputPath, outputPath)
                    /\ pc' = IF l.list = <<>> THEN AfterPredictions ELSE "predict"
                    /\ UNCHANGED <<resp, failed>>
    /\ UNCHANGED <<variant, query, loc, panicked, fs, proc, deferKill, pipe, writes,
                   now, reader, started, waitErr, tc>>

\* executePrediction on the next listed input
PredictStream ==
    /\ variant = "stream"
    /\ pc = "predict"
    /\ work # <<>>
    /\ LET item == Head(work)
           src == ObjName(loc.input.bucket, item.src)
           dst == ObjName(loc.output.bucket, item.dst)
           next == IF Len(work) = 1 THEN AfterPredictions ELSE "predict"
       IN \E answer \in Bodies \cup {<<>>} :
          \E net \in {"ok", "noread", "nowrite"} :
            LET fin == formatInput(store[src])
                fout == formatOutput(answer)
            IN
            /\ tc' = IF net = "noread" THEN tc
                     ELSE IF fin.err # "" THEN Encoded(store[src], fin)
                     ELSE IF answer = <<>> THEN tc
                     ELSE Decoded(fin.out, answer, fout)
            /\ IF net = "noread"
               THEN /\ Reply(500, "error when making predictions")
                    /\ failed' = Append(failed, "read")
                    /\ trace' = Append(trace, Ev("read", src))
                    /\ UNCHANGED <<store, work>>
               ELSE IF fin.err # ""
               THEN /\ Reply(500, "error when making predictions")
                    /\ failed' = Append(failed, "encode")
                    /\ trace' = Append(trace, Ev("read", src))
                    /\ UNCHANGED <<store, work>>
               ELSE IF answer = <<>> \/ fout.err # ""
               THEN /\ Reply(500, "error when making predictions")
                    /\ failed' = Append(failed, IF answer = <<>> THEN "post" ELSE "decode")
                    /\ trace' = trace \o <<Ev("read", src), Ev("post", item.src)>>
                    /\ UNCHANGED <<store, work>>
               ELSE IF net = "nowrite"
               THEN /\ Reply(500, "error when making predictions")
                    /\ failed' = Append(failed, "upload")
                    /\ trace' = trace \o <<Ev("read", src), Ev("post", item.src)>>
                    /\ UNCHANGED <<store, work>>
               ELSE /\ store' = Put(store, dst, fout.out)
                    /\ trace' = trace \o <<Ev("read", src), Ev("post", item.src),
                                           Ev("upload", dst)>>
                    /\ work' = Tail(work)
                    /\ pc' = next
                    /\ UNCHANGED <<resp, failed>>
    /\ UNCHANGED <<variant, query, loc, panicked, fs, proc, deferKill, pipe, writes,
                   now, reader, started, waitErr>>

-----------------------------------------------------------------------------
(* The end of the handler *)

\* w.WriteHeader(http.StatusOK); fmt.Fprintln(w, "predictions completed")
Respond ==
    /\ pc = "respond"
    /\ Reply(200, "predictions completed")
    /\ trace' = Append(trace, Ev("respond", <<>>))
    /\ UNCHANGED <<variant, query, loc, panicked, fs, store, proc, deferKill, pipe,
                   writes, now, reader, started, waitErr, work, failed, tc>>

\* The handler returns and its deferred call runs: cmd.Process.Kill().  When
\* cmd.Start failed cmd.Process is nil and Kill dereferences it.
Return ==
    /\ pc = "return"
    /\ pc' = "done"
    /\ IF deferKill /\ proc = "none"
       THEN panicked' = TRUE /\ UNCHANGED <<proc, trace>>
       ELSE IF deferKill
       THEN /\ proc' = IF proc = "running" THEN "killed" ELSE proc
            /\ trace' = Append(trace, Ev("kill", <<>>))
            /\ UNCHANGED panicked
       ELSE UNCHANGED <<proc, trace, panicked>>
    /\ UNCHANGED <<variant, query, loc, resp, fs, store, deferKill, pipe, writes, now,
                   reader, started, waitErr, work, failed, tc>>

Next ==
    \/ GetModelParam
    \/ GetInputParam
    \/ GetOutputParam
    \/ ClearStaging
    \/ NewClient
    \/ DownloadModel
    \/ StartTF
    \/ ChildWrite
    \/ ChildExit
    \/ ReaderRead
    \/ ReaderSendFalse
    \/ ReaderSendTrue
    \/ SelectStarted
    \/ SelectTimeout
    \/ Tick
    \/ AfterWait
    \/ DownloadInput
    \/ PredictStaged
    \/ Upload
    \/ ListInputs
    \/ PredictStream
    \/ Respond
    \/ Return

Spec == Init /\ [][Next]_vars

\* The same with progress: a goroutine that can run does run, a call that can
\* return does return, and time passes
LiveSpec == Spec /\ WF_vars(Next)

-----------------------------------------------------------------------------
(* The transcoder on its own: formatInput and formatOutput applied to files  *)
(* and bodies built from sample texts.  Each sample gives a JSON text and,   *)
(* written by hand, the compact serialization of its value.                  *)

DQ == "\""

LineSamples ==
    << [text |-> <<"1">>, value |-> <<"1">>],
       [text |-> <<" ", "[", "1", ",", " ", "2", "]">>,
        value |-> <<"[", "1", ",", "2", "]">>],
       [text |-> <<"{", DQ, "b", DQ, ":", "1", ",", DQ, "a", DQ, ":", DQ, "x", DQ, "}">>,
        value |-> <<"{", DQ, "a", DQ, ":", DQ, "x", DQ, ",", DQ, "b", DQ, ":", "1", "}">>],
       [text |-> <<DQ, "a", "\\", "n", "b", DQ>>,
        value |-> <<DQ, "a", "\\", "n", "b", DQ>>],
       [text |-> <<"n", "u", "l", "l">>, value |-> <<"n", "u", "l", "l">>],
       [text |-> <<BigSpace, "1">>, value |-> <<"1">>] >>

PredictionSamples ==
    << [text |-> <<"1">>, value |-> <<"1">>],
       [text |-> <<"[", "1", ",", "2", "]">>, value |-> <<"[", "1", ",", "2", "]">>],
       [text |-> <<"{", DQ, "b", DQ, ":", "1", ",", " ", DQ, "a", DQ, ":", "2", "}">>,
        value |-> <<"{", DQ, "a", DQ, ":", "2", ",", DQ, "b", DQ, ":", "1", "}">>],
       [text |-> <<DQ, "x", DQ>>, value |-> <<DQ, "x", DQ>>],
       [text |-> <<DQ, "a", "\\", "n", "b", DQ>>,
        value |-> <<DQ, "a", "\\", "n", "b", DQ>>],
       [text |-> <<DQ, "q", "\\", DQ, "r", DQ>>,
        value |-> <<DQ, "q", "\\", DQ, "r", DQ>>] >>

SeqsUpTo(S, n) == UNION {[1..k -> S] : k \in 0..n}

\* the file whose lines are the samples src, each ended by eol, the last one
\* only if lastEnded
FileOf(src, eol, lastEnded) ==
    Concat([i \in 1..Len(src) |->
              LineSamples[src[i]].text
              \o (IF i = Len(src) /\ ~lastEnded THEN <<>> ELSE eol)])

\* the body {"predictions":[...]} holding the samples src
BodyOf(src) ==
    <<"{", DQ>> \o KeyPredictions \o <<DQ, ":", "[">>
    \o Join([i \in 1..Len(src) |-> PredictionSamples[src[i]].text], <<",">>)
    \o <<"]", "}">>

InitFormat ==
    /\ variant = "staged"
    /\ pc = "done"
    /\ query = [model |-> Absent, input |-> Absent, output |-> Absent]
    /\ loc = [model |-> NoLoc, input |-> NoLoc, output |-> NoLoc]
    /\ resp = NoResp
    /\ panicked = FALSE
    /\ fs = EmptyFS
    /\ store = <<>>
    /\ proc = "none"
    /\ deferKill = FALSE
    /\ pipe = <<>>
    /\ writes = <<>>
    /\ now = 0
    /\ reader = NoReader
    /\ started = <<>>
    /\ waitErr = ""
    /\ work = <<>>
    /\ trace = <<>>
    /\ failed = <<>>
    /\ tc = NoCall

\* finput, err := formatInput(f)
CallFormatInput ==
    /\ tc = NoCall
    /\ \E src \in SeqsUpTo(1..Len(LineSamples), MaxLines) :
       \E eol \in {<<"\n">>, <<"\r", "\n">>} :
       \E lastEnded \in BOOLEAN :
        tc' = [op |-> "formatInput", src |-> src, in |-> FileOf(src, eol, lastEnded),
               out |-> formatInput(FileOf(src, eol, lastEnded))]
    /\ UNCHANGED handlerVars

\* foutput, err := formatOutput(resp.Body)
CallFormatOutput ==
    /\ tc = NoCall
    /\ \E src \in SeqsUpTo(1..Len(PredictionSamples), MaxPreds) :
        tc' = [op |-> "formatOutput", src |-> src, in |-> BodyOf(src),
               out |-> formatOutput(BodyOf(src))]
    /\ UNCHANGED handlerVars

\* the file of the lines src with an empty line after the k-th of them
BlankFileOf(src, eol, k) ==
    FileOf(SubSeq(src, 1, k), eol, TRUE) \o eol
    \o FileOf(SubSeq(src, k + 1, Len(src)), eol, TRUE)

\* finput, err := formatInput(f) on a file that holds an empty line
CallFormatInputBlank ==
    /\ tc = NoCall
    /\ \E src \in SeqsUpTo(1..Len(LineSamples), MaxLines) \ {<<>>} :
       \E eol \in {<<"\n">>, <<"\r", "\n">>} :
       \E k \in 1..Len(src) :
        tc' = [op |-> "formatInput/blank", src |-> src, in |-> BlankFileOf(src, eol, k),
               out |-> formatInput(BlankFileOf(src, eol, k))]
    /\ UNCHANGED handlerVars

NextFormat == CallFormatInput \/ CallFormatInputBlank \/ CallFormatOutput

SpecFormat == InitFormat /\ [][NextFormat]_vars

-----------------------------------------------------------------------------
(* The transfers between the bucket and the local disk, called on their own: *)
(* a tree of the bucket is downloaded to the input staging directory, then   *)
(* the directory is uploaded to another prefix of the same bucket            *)

\* what the bucket may hold: under the prefix i/ the keys of InputKeys, each
\* file with one of two contents, and a key that only shares the letter i
KeyOther == <<"b", "/", "i", "x">>
TransferWorlds ==
    {w \in UNION {[K -> {GoodFile, EmptyFile}] : K \in SUBSET (InputKeys \cup {KeyOther})} :
        \A k \in DOMAIN w : HasSuffix(k, Slash) => w[k] = EmptyFile}

\* the remote paths handed to a download: the prefix, the prefix without its
\* "/", a file key, a directory key
DownloadPaths ==
    {<<"i", "/">>, <<"i">>, <<"i", "/", "a">>, <<"i", "/", "b", "/">>}
UploadPaths == {<<"r", "/">>, <<"r">>}

\* the record of a transfer call: its remote path, the names that were made
\* to fail, its error
Transfer(op, path, bad, err) == [op |-> op, src |-> path, in |-> bad, out |-> err]

InitTransfer ==
    /\ variant \in {"staged", "stream"}
    /\ pc = "download"
    /\ query = [model |-> Absent, input |-> Absent, output |-> Absent]
    /\ loc = [model |-> NoLoc, input |-> NoLoc, output |-> NoLoc]
    /\ resp = NoResp
    /\ panicked = FALSE
    /\ fs = EmptyFS
    /\ store \in TransferWorlds
    /\ proc = "none"
    /\ deferKill = FALSE
    /\ pipe = <<>>
    /\ writes = <<>>
    /\ now = 0
    /\ reader = NoReader
    /\ started = <<>>
    /\ waitErr = ""
    /\ work = <<>>
    /\ trace = <<>>
    /\ failed = <<>>
    /\ tc = NoCall

\* the names a download of path touches: the listing, every object, every
\* local file
TransferNames(path) ==
    {ObjName(BucketB, path)} \cup DOMAIN store
    \cup {LOCAL_INPUT_PATH \o From(k, Len(BucketB) + 1 + Len(path)) :
            k \in {x \in DOMAIN store : HasPrefix(x, ObjName(BucketB, path))}}

\* err = downloadFiles(ctx, bucket, path, localDest), in each source file
CallDownloadFiles ==
    /\ pc = "download"
    /\ \E path \in DownloadPaths :
       \E bad \in {{}, TransferNames(path)} :
        LET r == IF variant = "staged"
                 THEN downloadFiles(store, fs, BucketB, path, LOCAL_INPUT_PATH, bad)
                 ELSE downloadFilesStream(store, fs, BucketB, path, LOCAL_INPUT_PATH, bad)
        IN  /\ fs' = r.fs
            /\ tc' = Transfer("downloadFiles", path, bad, r.err)
            /\ pc' = IF r.err = "" /\ variant = "staged" THEN "upload" ELSE "done"
    /\ UNCHANGED <<variant, query, loc, resp, panicked, store, proc, deferKill, pipe,
                   writes, now, reader, started, waitErr, work, trace, failed>>

\* err = downloadFile(ctx, bucket, path, dest) of Server.go
CallDownloadFile ==
    /\ pc = "download"
    /\ variant = "staged"
    /\ \E path \in DownloadPaths :
       \E bad \in {{}, TransferNames(path)} :
        LET r == downloadFile(store, fs, BucketB, path,
                              <<"/", "t", "m", "p", "/">> \o BaseName(path), bad)
        IN  /\ fs' = r.fs
            /\ tc' = Transfer("downloadFile", path, bad, r.err)
            /\ pc' = "done"
    /\ UNCHANGED <<variant, query, loc, resp, panicked, store, proc, deferKill, pipe,
                   writes, now, reader, started, waitErr, work, trace, failed>>

\* err = uploadFile(ctx, bucket, path, localPath) of Server.go, on the
\* directory that was downloaded (the record keeps the path it came from)
CallUploadFile ==
    /\ pc = "upload"
    /\ \E path \in UploadPaths :
        LET r == uploadFile(store, fs, BucketB, path, LOCAL_INPUT_PATH, {})
        IN  /\ store' = r.store
            /\ tc' = Transfer("uploadFile", path, tc.src, r.err)
            /\ pc' = "done"
    /\ UNCHANGED <<variant, query, loc, resp, panicked, fs, proc, deferKill, pipe,
                   writes, now, reader, started, waitErr, work, trace, failed>>

\* list, err := listGcsFiles(ctx, bucket, path) of the second source file
\* (the record keeps the list in place of the error)
CallListGcsFiles ==
    /\ pc = "download"
    /\ variant = "stream"
    /\ \E path \in DownloadPaths :
        /\ tc' = Transfer("listGcsFiles", path, {},
                          listGcsFiles(store, BucketB, path, {}).list)
        /\ pc' = "done"
    /\ UNCHANGED <<variant, query, loc, resp, panicked, fs, store, proc, deferKill, pipe,
                   writes, now, reader, started, waitErr, work, trace, failed>>

NextTransfer ==
    CallDownloadFiles \/ CallDownloadFile \/ CallUploadFile \/ CallListGcsFiles

SpecTransfer == InitTransfer /\ [][NextTransfer]_vars

-----------------------------------------------------------------------------
(* Two requests on one instance.  http.ListenAndServe runs LoadAndPredict in *)
(* a goroutine of its own for every request; the two handlers share the disk *)
(* and the port of the inference process.  Each handler is Server.go's, one  *)
(* action per statement that touches the disk, the store or a process, with  *)
(* valid parameters; pc, loc, resp and proc hold one value per request.      *)

Requests == {1, 2}
EvOf(r, step, arg) == [req |-> r, step |-> step, arg |-> arg]

\* the bucket: a model, and an input file under each of two prefixes
OverlapStore ==
    [k \in {<<"b", "/", "m", "/", "s">>, <<"b", "/", "i", "/", "a">>,
            <<"b", "/", "j", "/", "a">>}
       |-> IF k = <<"b", "/", "m", "/", "s">> THEN ModelFile ELSE GoodFile]
OverlapLocs ==
    {[model |-> [bucket |-> BucketB, path |-> <<"m", "/">>],
      input |-> [bucket |-> BucketB, path |-> i],
      output |-> [bucket |-> BucketB, path |-> <<"o">>]] :
        i \in {<<"i", "/">>, <<"j", "/">>}}

InitOverlap ==
    /\ variant = "staged"
    /\ pc = [r \in Requests |-> "idle"]
    /\ query = [model |-> Absent, input |-> Absent, output |-> Absent]
    /\ loc \in [Requests -> OverlapLocs]
    /\ resp = [r \in Requests |-> NoResp]
    /\ panicked = FALSE
    /\ fs = EmptyFS
    /\ store = OverlapStore
    /\ proc = [r \in Requests |-> "none"]
    /\ deferKill = FALSE
    /\ pipe = <<>>
    /\ writes = <<>>
    /\ now = 0
    /\ reader = NoReader
    /\ started = <<>>
    /\ waitErr = ""
    /\ work = <<>>
    /\ trace = <<>>
    /\ failed = <<>>
    /\ tc = NoCall

\* the handler that starts only when no other request is being served
ReqArriveSerialized(r) ==
    /\ pc[r] = "idle"
    /\ \A o \in Requests \ {r} : pc[o] \in {"idle", "done"}
    /\ pc' = [pc EXCEPT ![r] = "clear"]
    /\ UNCHANGED <<variant, query, loc, resp, panicked, fs, store, proc, deferKill,
                   pipe, writes, now, reader, started, waitErr, work, trace, failed, tc>>

\* the request arrives, LoadAndPredict is called and its parameters are valid
ReqArrive(r) ==
    /\ pc[r] = "idle"
    /\ pc' = [pc EXCEPT ![r] = "clear"]
    /\ UNCHANGED <<variant, query, loc, resp, panicked, fs, store, proc, deferKill,
                   pipe, writes, now, reader, started, waitErr, work, trace, failed, tc>>

\* w.WriteHeader(status); return
ReqReply(r, status) ==
    /\ resp' = [resp EXCEPT ![r] = [status |-> status, body |-> ""]]
    /\ pc' = [pc EXCEPT ![r] = "return"]

\* "Clear the previous execution"
ReqClear(r) ==
    /\ pc[r] = "clear"
    /\ fs' = RemoveAll(RemoveAll(RemoveAll(fs, LOCAL_MODEL_PATH), LOCAL_INPUT_PATH),
                       LOCAL_OUTPUT_PATH)
    /\ trace' = Append(trace, EvOf(r, "clear", SortStrings(DOMAIN fs.files \ DOMAIN fs'.files)))
    /\ pc' = [pc EXCEPT ![r] = "downloadModel"]
    /\ UNCHANGED <<variant, query, loc, resp, panicked, store, proc, deferKill,
                   pipe, writes, now, reader, started, waitErr, work, failed, tc>>

\* a download of the handler, and where it goes on
ReqDownload(r, at, path, dest, then) ==
    /\ pc[r] = at
    /\ LET d == downloadFiles(store, fs, BucketB, path, dest, {}) IN
        /\ fs' = d.fs
        /\ trace' = Append(trace, EvOf(r, at, <<>>))
        /\ IF d.err # "" THEN ReqReply(r, 500)
           ELSE pc' = [pc EXCEPT ![r] = then] /\ UNCHANGED resp
    /\ UNCHANGED <<variant, query, loc, panicked, store, proc, deferKill,
                   pipe, writes, now, reader, started, waitErr, work, failed, tc>>

\* "Download model"
ReqDownloadModel(r) ==
    ReqDownload(r, "downloadModel", loc[r].model.path,
                LOCAL_MODEL_PATH \o MODEL_DUMMY_VERSION, "start")

\* startAndWaitTF(cmd) with --rest_api_port=TF_PORT, and its deferred Kill:
\* the process is launched; it becomes ready or the wait fails
ReqStartTF(r) ==
    /\ pc[r] = "start"
    /\ proc' = [proc EXCEPT ![r] = "running"]
    /\ trace' = Append(trace, EvOf(r, "start", <<>>))
    /\ \E ready \in BOOLEAN :
        IF ready THEN pc' = [pc EXCEPT ![r] = "downloadInput"] /\ UNCHANGED resp
        ELSE ReqReply(r, 500)
    /\ UNCHANGED <<variant, query, loc, panicked, fs, store, deferKill,
                   pipe, writes, now, reader, started, waitErr, work, failed, tc>>

\* "Download input"
ReqDownloadInput(r) ==
    ReqDownload(r, "downloadInput", loc[r].input.path, LOCAL_INPUT_PATH, "predict")

\* the steps of makePredictions done on the disk, every inference request
\* answered with BodyOk
RECURSIVE writeOutputs(_, _)
writeOutputs(walk, f) ==
    IF walk = <<>> THEN Ok(f)
    ELSE IF Head(walk).op = "fail" THEN Err("readdir: failed", f)
    ELSE IF Head(walk).op = "mkdir"
         THEN writeOutputs(Tail(walk), MkdirAll(f, Head(walk).dst))
    ELSE IF ~IsFile(f, Head(walk).src) THEN Err("open: failed", f)
    ELSE IF formatInput(f.files[Head(walk).src]).err # "" THEN Err("json: syntax error", f)
    ELSE IF ~CanCreate(f, Head(walk).dst) THEN Err("open: create failed", f)
    ELSE writeOutputs(Tail(walk), WriteFile(f, Head(walk).dst, formatOutput(BodyOk).out))

\* err = makePredictions(LOCAL_INPUT_PATH, LOCAL_OUTPUT_PATH)
ReqPredict(r) ==
    /\ pc[r] = "predict"
    /\ LET m == writeOutputs(predictionWalk(fs, LOCAL_INPUT_PATH, LOCAL_OUTPUT_PATH), fs) IN
        /\ fs' = m.fs
        /\ trace' = Append(trace, EvOf(r, "predict", <<>>))
        /\ IF m.err # "" THEN ReqReply(r, 500)
           ELSE pc' = [pc EXCEPT ![r] = "upload"] /\ UNCHANGED resp
    /\ UNCHANGED <<variant, query, loc, panicked, store, proc, deferKill,
                   pipe, writes, now, reader, started, waitErr, work, failed, tc>>

\* "Upload file to storage", then the answer 200
ReqUpload(r) ==
    /\ pc[r] = "upload"
    /\ LET u == uploadFile(store, fs, loc[r].output.bucket, loc[r].output.path,
                           LOCAL_OUTPUT_PATH, {}) IN
        /\ store' = u.store
        /\ trace' = Append(trace, EvOf(r, "upload", u.log))
    /\ ReqReply(r, 200)
    /\ UNCHANGED <<variant, query, loc, panicked, fs, proc, deferKill,
                   pipe, writes, now, reader, started, waitErr, work, failed, tc>>

\* the handler returns; the deferred cmd.Process.Kill() runs
ReqReturn(r) ==
    /\ pc[r] = "return"
    /\ pc' = [pc EXCEPT ![r] = "done"]
    /\ proc' = [proc EXCEPT ![r] = IF @ = "running" THEN "killed" ELSE @]
    /\ UNCHANGED <<variant, query, loc, resp, panicked, fs, store, deferKill,
                   pipe, writes, now, reader, started, waitErr, work, trace, failed, tc>>

\* the next statement of the handler of request r
ReqStep(r) ==
    \/ ReqArrive(r)
    \/ ReqClear(r)
    \/ ReqDownloadModel(r)
    \/ ReqStartTF(r)
    \/ ReqDownloadInput(r)
    \/ ReqPredict(r)
    \/ ReqUpload(r)
    \/ ReqReturn(r)

NextOverlap == \E r \in Requests : ReqStep(r)

SpecOverlap == InitOverlap /\ [][NextOverlap]_vars

-----------------------------------------------------------------------------
(* Properties of the handler *)

Steps(name) == {i \in 1..Len(trace) : trace[i].step = name}
Args(name) == {trace[i].arg : i \in Steps(name)}
Launched == proc # "none"
Succeeded == pc = "done" /\ resp.status = 200

\* C1: when the handler has returned and the inference process had been
\* launched, Kill was called on it and it no longer runs, whichever step the
\* request ended with.
C1_KilledOnReturn ==
    (pc = "done" /\ Launched) => (proc \in {"killed", "exited"} /\ Steps("kill") # {})

\* the request got as far as an inference request, failed there, and the
\* process was killed on return
C1_Witness ==
    pc = "done" /\ proc = "killed" /\ failed # <<>> /\ Steps("post") # {}

\* C2: once a step of the request has failed, the handler does not reach the
\* answer "predictions completed": it answers no status 200.
C2_NoSuccessAfterFailure ==
    (pc = "done" /\ failed # <<>>) => (resp.status # 200 /\ Steps("respond") = {})

\* a parameter that is missing or does not start with "gs://"
BadParam(p) == ~query[p].present \/ ~HasPrefix(query[p].value, BUCKET_PREFIX)

\* C3: a request with a missing or unprefixed location parameter ends with the
\* validation error 400, and neither the staging directories, nor the store,
\* nor the process were touched.
C3_ValidationFirst ==
    (pc = "done" /\ \E p \in {"model", "input", "output"} : BadParam(p))
        => /\ resp.status = 400
           /\ \A i \in 1..Len(trace) : trace[i].step = "validate"
           /\ fs.created = <<>> /\ store = <<>> /\ proc = "none"

TimedOut == waitErr = "timeout exceeded"
MarkerWritten == \E i \in 1..Len(writes) : writes[i] \in {"ready", "late"}

\* C4: a launched server whose stderr neither showed the marker nor failed
\* makes startAndWaitTF return the timeout error; the request then ends with
\* the error 500 of the start step, no input was downloaded, read or
\* submitted, nothing was uploaded, and the process was killed.
C4_TimeoutAborts ==
    /\ (pc = "afterWait" /\ Launched /\ ~MarkerWritten /\ reader.err = "") => TimedOut
    /\ (pc = "done" /\ TimedOut)
          => /\ resp = [status |-> 500, body |-> "error when starting tensorflow"]
             /\ \A i \in 1..Len(trace) :
                   trace[i].step \notin {"downloadInput", "listInputs", "read", "post",
                                         "write", "upload", "respond"}
             /\ proc \in {"killed", "exited"} /\ Steps("kill") # {}

\* the wait timed out on a server that wrote log text without the marker, and
\* the handler has returned
C4_Witness ==
    pc = "done" /\ TimedOut /\ proc = "killed" /\ writes # <<>> /\ ~MarkerWritten

\* C5: when the child wrote the readiness line with time left for every block
\* to be read, keeps running, and no write to os.Stderr failed, startAndWaitTF
\* returns nil.
C5_ReadyWhenMarkerEmitted ==
    (pc = "afterWait" /\ "ready" \in Range(writes) /\ proc = "running" /\ reader.err = "")
        => waitErr = ""

\* the place of a step in the sequence of one request, the upload of outputs
\* after all predictions
Phase(step) ==
    CASE step = "validate" -> 1
      [] step = "clear" -> 2
      [] step = "newClient" -> 3
      [] step = "downloadModel" -> 4
      [] step = "start" -> 5
      [] step = "ready" -> 6
      [] step \in {"downloadInput", "listInputs"} -> 7
      [] step \in {"read", "post", "write"} -> 8
      [] step = "upload" -> 9
      [] step = "respond" -> 10
      [] step = "kill" -> 11

\* the same, the uploads of the streaming version counted with the
\* predictions they follow
PhaseIn(v, step) == IF v = "stream" /\ step = "upload" THEN 8 ELSE Phase(step)

\* every inference request follows the report of readiness
PostsAfterReady ==
    \A i \in Steps("post") : \E j \in Steps("ready") : j < i

Leaf(p) == From(p, LastIndex(p, "/") + 1)
DirPart(p) == To(p, LastIndex(p, "/") + 1)
OutputDir == IF HasSuffix(loc.output.path, Slash) THEN loc.output.path
             ELSE loc.output.path \o Slash

\* the input files of the request: the objects under the input path that are
\* not directory markers, or the one object the input path names
InputFiles ==
    {k \in DOMAIN store :
        /\ HasPrefix(k, ObjName(loc.input.bucket, loc.input.path))
        /\ ~HasSuffix(k, Slash)
        /\ HasSuffix(loc.input.path, Slash) \/ k = ObjName(loc.input.bucket, loc.input.path)}

\* the output object of the input file k: same relative directory under the
\* output path, leaf name prefixed
OutputOf(k) ==
    ObjName(loc.output.bucket,
            OutputDir
            \o DirPart(From(k, Len(ObjName(loc.input.bucket, DirPart(loc.input.path)))))
            \o OUTPUT_PREFIX \o Leaf(k))

\* C7: after the answer 200 the request has written exactly the objects
\* <output>/d/prediction_f of its input files d/f, each once.
C7_OutputsMatchInputs ==
    Succeeded =>
        /\ Args("upload") = {OutputOf(k) : k \in InputFiles}
        /\ Cardinality(Steps("upload")) = Cardinality(InputFiles)

\* the components of a path
RECURSIVE Components(_)
Components(p) ==
    IF Index(p, "/") < 0 THEN <<p>>
    ELSE <<To(p, Index(p, "/"))>> \o Components(From(p, Index(p, "/") + 1))

\* x comes before y in a walk that visits the names of every directory in
\* byte order
WalkLess(x, y) ==
    \E i \in 1..Min(Len(Components(x)), Len(Components(y))) :
        /\ \A j \in 1..(i - 1) : Components(x)[j] = Components(y)[j]
        /\ LexLess(Components(x)[i], Components(y)[i])

\* the object a local output file is uploaded to
Remote(dst) == ObjName(loc.output.bucket, OutputDir \o From(dst, Len(LOCAL_OUTPUT_PATH)))
\* the position in the trace at which the uploaded object o was produced
Produced(o) ==
    IF variant = "stream" THEN CHOOSE k \in Steps("upload") : trace[k].arg = o
    ELSE CHOOSE k \in Steps("write") : Remote(trace[k].arg) = o

-----------------------------------------------------------------------------
(* Properties of the transcoder *)

\* C9: formatInput of a file of N well-formed JSON lines returns the envelope
\* {"instances":[v1,...,vN]} of the N values in the order of the lines.
C9_InstancesOfLines ==
    tc.op = "formatInput" =>
        /\ tc.out.err = ""
        /\ tc.out.out = <<"{", DQ>> \o KeyInstances \o <<DQ, ":", "[">>
                        \o Join([i \in 1..Len(tc.src) |-> LineSamples[tc.src[i]].value],
                                <<",">>)
                        \o <<"]", "}">>

\* the N lines of the compact serializations of the predictions src
LinesOf(src) == Concat([i \in 1..Len(src) |-> PredictionSamples[src[i]].value \o <<"\n">>])

\* C10 as stated: formatOutput of a body with N predictions and no error
\* returns the N lines of their compact serializations, in order.
C10_LinesOfPredictions ==
    tc.op = "formatOutput" => (tc.out.err = "" /\ tc.out.out = LinesOf(tc.src))

\* C10 amended: the same for every body that holds no backslash.
C10_LinesWithoutBackslash ==
    (tc.op = "formatOutput" /\ "\\" \notin Range(tc.in))
        => (tc.out.err = "" /\ tc.out.out = LinesOf(tc.src))

\* a body of two predictions without backslash, one an object whose keys are
\* not in order, was decoded
C10_Witness ==
    /\ tc.op = "formatOutput" /\ "\\" \notin Range(tc.in)
    /\ Len(tc.src) = 2 /\ 3 \in Range(tc.src)
    /\ tc.out.err = ""

-----------------------------------------------------------------------------
(* Properties of the later claims *)

\* the answers that hold an error, each with the message its text denotes
ErrorBodies ==
    { [body |-> BodyError, message |-> <<"s">>],
      [body |-> BodyErrorQuoted, message |-> <<"a", DQ, "b">>] }

\* what the handler did after formatOutput returned the error of the answer
\* to the item at the head of work: the request is answered 500 and is over,
\* nothing follows the inference request but the kill, the output of the item
\* does not exist, and every object uploaded before is in the bucket with the
\* lines it was written with
FailedOnAnswer ==
    /\ pc \in {"return", "done"}
    /\ resp.status = 500
    /\ failed # <<>> /\ failed[Len(failed)] = "decode"
    /\ work # <<>>
    /\ trace[Len(trace) - (IF pc = "done" THEN 1 ELSE 0)] =
          Ev("post", Head(work).src)
    /\ IF variant = "staged"
       THEN ~IsFile(fs, Head(work).dst) /\ Steps("upload") = {}
       ELSE ObjName(loc.output.bucket, Head(work).dst) \notin DOMAIN store
    /\ \A i \in Steps("upload") :
          /\ trace[i].arg \in DOMAIN store
          /\ store[trace[i].arg] = <<"1", "\n", "2", "\n">>

\* C11 as stated: an answer with a non-empty error field makes formatOutput
\* fail with that message and no lines; no output is written for the file,
\* no further file is processed, the request fails, and the outputs uploaded
\* before stay as they are.
C11_ErrorAnswerFails ==
    \A e \in ErrorBodies :
        (tc.op = "formatOutput" /\ tc.in = e.body)
            => /\ tc.out.err # "" /\ tc.out.out = <<>>
               /\ tc.out.msg = e.message
               /\ FailedOnAnswer

\* the part of it that holds of the code: the same, the error carrying the
\* message when the answer holds no backslash
C11_ErrorAnswerFailsPlain ==
    \A e \in ErrorBodies :
        (tc.op = "formatOutput" /\ tc.in = e.body)
            => /\ tc.out.err # "" /\ tc.out.out = <<>>
               /\ "\\" \notin Range(e.body) => tc.out.msg = e.message
               /\ FailedOnAnswer

\* the streaming version got an error answer for its second file, after the
\* output of the first was uploaded, and has returned
C11_Witness ==
    /\ pc = "done" /\ variant = "stream"
    /\ tc.op = "formatOutput" /\ tc.in = BodyError
    /\ Steps("upload") # {}

\* the files with a line that is no JSON value: the only line, or the line
\* after a well-formed one
BadFiles == {BadFile, LateBadFile}

\* the inference requests sent for the input with the path p
PostsFor(p) == {i \in Steps("post") : trace[i].arg = p}

\* the paths of the inputs that hold a line that is no JSON value
BadInputs ==
    IF variant = "staged"
    THEN {p \in DOMAIN fs.files : fs.files[p] \in BadFiles}
    ELSE {p \in {From(k, Len(loc.input.bucket) + 1) : k \in DOMAIN store} :
            /\ ObjName(loc.input.bucket, p) \in DOMAIN store
            /\ store[ObjName(loc.input.bucket, p)] \in BadFiles}

\* C12: when a line of an input file is no JSON value, formatInput fails with
\* no envelope, the request fails there, and no inference request is ever
\* sent for that file, not even for the lines before the bad one.
C12_NoPartialSubmission ==
    /\ \A p \in BadInputs : PostsFor(p) = {}
    /\ (tc.op = "formatInput" /\ tc.in \in BadFiles)
          => /\ tc.out.err # "" /\ tc.out.out = <<>>
             /\ pc \in {"return", "done"}
             /\ resp.status = 500
             /\ failed # <<>> /\ failed[Len(failed)] = "encode"
             /\ work # <<>> /\ PostsFor(Head(work).src) = {}

\* the handler has returned after formatInput refused a file whose second
\* line is the bad one
C12_Witness ==
    /\ pc = "done"
    /\ tc.op = "formatInput" /\ tc.in = LateBadFile
    /\ Head(work).src \in BadInputs

\* the keys of the bucket under the directory path dir, relative to it
KeysUnder(dir) ==
    {From(k, Len(ObjName(BucketB, dir))) :
        k \in {x \in DOMAIN store : HasPrefix(x, ObjName(BucketB, dir))
                                      /\ x # ObjName(BucketB, dir)}}
AsDir(path) == IF HasSuffix(path, Slash) THEN path ELSE path \o Slash

\* C13: downloadFiles of a directory prefix, no call failing for an outside
\* reason, then uploadFile of the local directory to another directory
\* location: both succeed and the keys under the new location are the keys
\* under the prefix, relative to it, each with the same bytes.
C13_RoundTrip ==
    (/\ variant = "staged" /\ pc = "done"
     /\ \/ tc.op = "uploadFile"
        \/ tc.op = "downloadFiles" /\ HasSuffix(tc.src, Slash) /\ tc.in = {})
        => /\ tc.op = "uploadFile" /\ tc.out = ""
           /\ KeysUnder(AsDir(tc.src)) = KeysUnder(tc.in)
           /\ \A n \in KeysUnder(tc.in) :
                 store[ObjName(BucketB, AsDir(tc.src) \o n)]
                    = store[ObjName(BucketB, tc.in \o n)]

\* the part of it that holds of the code: when the keys under the prefix are
\* files directly under it, the round trip reproduces them
C13_RoundTripFlat ==
    (/\ variant = "staged" /\ pc = "done"
     /\ \/ tc.op = "uploadFile"
        \/ tc.op = "downloadFiles" /\ HasSuffix(tc.src, Slash) /\ tc.in = {}
     /\ \A n \in KeysUnder(IF tc.op = "uploadFile" THEN tc.in ELSE tc.src) :
           Index(n, "/") < 0)
        => /\ tc.op = "uploadFile" /\ tc.out = ""
           /\ KeysUnder(AsDir(tc.src)) = KeysUnder(tc.in)
           /\ \A n \in KeysUnder(tc.in) :
                 store[ObjName(BucketB, AsDir(tc.src) \o n)]
                    = store[ObjName(BucketB, tc.in \o n)]

\* the regular files in the three staging directories
Staged ==
    {p \in DOMAIN fs.files : \/ IsUnder(p, LOCAL_MODEL_PATH)
                             \/ IsUnder(p, LOCAL_INPUT_PATH)
                             \/ IsUnder(p, LOCAL_OUTPUT_PATH)}

\* the local file an uploaded object was read from
LocalOf(obj) ==
    LOCAL_OUTPUT_PATH \o From(obj, Len(ObjName(loc.output.bucket, AsDir(loc.output.path))))

\* C14: once a request has passed validation and cleared the staging
\* directories, every file in them was created by this request; the files it
\* submits for prediction and the files it uploads are files it created.
C14_StagingIsOwn ==
    Steps("clear") # {}
        => /\ \A p \in Staged : p \in Range(fs.created)
           /\ variant = "staged" =>
                /\ \A p \in Args("post") : p \in Range(fs.created)
                /\ \A o \in Args("upload") : LocalOf(o) \in Range(fs.created)

\* a request of Server.go that found the files of an earlier request on the
\* disk has posted an input and uploaded its predictions
C14_Witness ==
    /\ variant = "staged" /\ pc = "done"
    /\ \E i \in Steps("clear") :
          Range(trace[i].arg) = {StaleModel, StaleInput, StaleOutput}
    /\ Args("post") # {} /\ Args("upload") # {}
    /\ StaleInput \notin Args("post")

\* a location with the prefix "gs://" and no "/" after the bucket name
NoSeparator(p) ==
    /\ query[p].present
    /\ HasPrefix(query[p].value, BUCKET_PREFIX)
    /\ "/" \notin Range(From(query[p].value, Len(BUCKET_PREFIX)))

\* C15: extractLocation returns a pair or an error for every location: a
\* request with a location "gs://bucket" without separator ends with the
\* validation error 400, and the handler does not fault on it.
C15_LocationOrError ==
    (pc = "done" /\ \E p \in {"model", "input", "output"} : NoSeparator(p))
        => ~panicked /\ resp.status = 400

\* C16: downloadFiles of a path that does not end in "/", and downloadFile of
\* a key that ends in "/", return their validation error with the disk as it
\* was, also when every call to the store and to the disk would have failed.
C16_ShapeCheckedFirst ==
    /\ (tc.op = "downloadFiles" /\ ~HasSuffix(tc.src, Slash))
          => tc.out = "downloadFiles: path must be GCS directory" /\ fs = EmptyFS
    /\ (tc.op = "downloadFile" /\ HasSuffix(tc.src, Slash))
          => tc.out = "downloadFiles: path must be GCS file" /\ fs = EmptyFS

\* downloadFiles of Server.go was called on the path i, the bucket holding
\* keys that start with i and every store and disk call set to fail
C16_Witness ==
    /\ variant = "staged"
    /\ tc.op = "downloadFiles" /\ tc.src = <<"i">>
    /\ tc.in # {} /\ KeyA \in DOMAIN store /\ KeyOther \in DOMAIN store

\* C17: no request waits for another: whatever the other request is doing, a
\* request that arrives is served, a request about to clear the staging
\* directories can clear them, and a request about to start its inference
\* process can start it; so the clearing of one removes what the other has
\* staged, and two inference processes are started for the one port.
C17_NoMutualExclusion ==
    \A r \in Requests :
        /\ pc[r] = "idle" => ENABLED ReqArrive(r)
        /\ pc[r] = "clear" => ENABLED ReqClear(r)
        /\ pc[r] = "start" => ENABLED ReqStartTF(r)

\* request 2 is between its input download and its upload; request 1 has
\* since removed input files from the staging directory and has started its
\* own inference process while that of request 2 is running
C17_Witness ==
    /\ pc[2] \in {"predict", "upload"}
    /\ proc[1] = "running" /\ proc[2] = "running"
    /\ \E i \in 1..Len(trace) :
          /\ trace[i].req = 1 /\ trace[i].step = "clear"
          /\ \E p \in Range(trace[i].arg) : IsUnder(p, LOCAL_INPUT_PATH)
          /\ \E j \in 1..(i - 1) : trace[j].req = 2 /\ trace[j].step = "downloadInput"

\* the state of the supervisor: the start was not attempted, startAndWaitTF
\* is waiting, it returned an error, it returned nil, the handler returned
\* after it had returned nil
Supervisor ==
    IF Steps("start") = {} THEN "NotStarted"
    ELSE IF pc = "wait" THEN "Starting"
    ELSE IF waitErr # "" THEN "Failed"
    ELSE IF pc # "done" THEN "Ready"
    ELSE "Terminated"

\* the transitions, and what one step of the model may run through of them
\* (cmd.Start and its failure are one step)
SupervisorEdges ==
    {<<"NotStarted", "Starting">>, <<"Starting", "Ready">>,
     <<"Ready", "Terminated">>, <<"Starting", "Failed">>}
SupervisorPaths ==
    SupervisorEdges \cup {<<"NotStarted", "Failed">>}

\* copyAndCapture has returned an error: the stream ended, or a write of
\* what was read failed, before the readiness line was seen
StreamFailed == reader.err # ""

\* C18: the supervisor moves only along NotStarted -> Starting -> Ready ->
\* Terminated and Starting -> Failed; once the stream has failed during the
\* wait, Ready is never reported, and the wait ends at once with the error
\* of the stream when the timer has not fired.
C18_SupervisorTransitions ==
    /\ [](StreamFailed => (Steps("ready") = {} /\ Supervisor \notin {"Ready", "Terminated"}))
    /\ [][/\ Supervisor' # Supervisor => <<Supervisor, Supervisor'>> \in SupervisorPaths
          /\ (pc = "wait" /\ StreamFailed /\ ~TimerFired(now))
                => /\ now' <= now
                   /\ pc' # "wait" => (waitErr' = reader.err /\ Supervisor' = "Failed")]_vars

\* the child wrote a block of log and exited during its start: the wait
\* ended with the error of the stream and the handler has returned
C18_Witness ==
    /\ pc = "done"
    /\ writes = <<"log">> /\ proc = "exited"
    /\ waitErr = "EOF" /\ reader.err = "EOF"
    /\ Steps("ready") = {}

\* how many times os.Create has opened the path p
TimesCreated(p) == Cardinality({i \in 1..Len(fs.created) : fs.created[i] = p})

\* every object under the directory path dir is on the disk under
\* LOCAL_INPUT_PATH with its bytes, and was written once
EveryObjectOnce(dir) ==
    \A n \in {k \in KeysUnder(dir) : ~HasSuffix(k, Slash)} :
        /\ IsFile(fs, LOCAL_INPUT_PATH \o n)
        /\ fs.files[LOCAL_INPUT_PATH \o n] = store[ObjName(BucketB, dir \o n)]
        /\ TimesCreated(LOCAL_INPUT_PATH \o n) = 1

\* C19: downloadFiles of a directory prefix, no call failing for an outside
\* reason, succeeds and writes every object under the prefix, at any depth,
\* once to localDest + its relative path, with or without directory-marker
\* keys in the bucket.
C19_EveryObjectOnce ==
    (tc.op = "downloadFiles" /\ HasSuffix(tc.src, Slash) /\ tc.in = {})
        => tc.out = "" /\ EveryObjectOnce(tc.src)

\* the part of it that holds of the code: the second source file does so
C19_EveryObjectOnceStream ==
    (variant = "stream" /\ tc.op = "downloadFiles" /\ HasSuffix(tc.src, Slash) /\ tc.in = {})
        => tc.out = "" /\ EveryObjectOnce(tc.src)

\* cmd.Start returned an error: there is no process
LaunchFailed == waitErr = "exec: start failed"

\* C20: when the inference process could not be launched, the request ends
\* with the one failure of the start step, answered 500, and the deferred
\* Kill neither faults nor changes that answer.
C20_LaunchFailureReported ==
    (pc = "done" /\ LaunchFailed)
        => /\ ~panicked
           /\ resp = [status |-> 500, body |-> "error when starting tensorflow"]
           /\ failed = <<"start">>

\* the caller has its answer: a status was written and the handler returned
\* without a panic (net/http drops the connection of a handler that panics)
Answered == pc = "done" /\ resp.status # 0 /\ ~panicked

\* C21: every request eventually returns and answers its caller, with the
\* completion, a reported failure or the readiness timeout; it does not stay
\* in the readiness wait nor in an inference request.
C21_EventuallyAnswers == <>Answered

\* the envelope with an empty array of instances
EmptyEnvelope == <<"{", DQ>> \o KeyInstances \o <<DQ, ":", "[", "]", "}">>

\* the paths of the inputs of the request that are empty files
EmptyInputs ==
    IF variant = "staged"
    THEN {p \in DOMAIN fs.files : IsUnder(p, LOCAL_INPUT_PATH) /\ fs.files[p] = EmptyFile}
    ELSE {p \in {From(k, Len(loc.input.bucket) + 1) :
                    k \in {x \in DOMAIN store : HasPrefix(x, loc.input.bucket \o Slash)}} :
            /\ HasPrefix(p, loc.input.path) /\ ~HasSuffix(p, Slash)
            /\ store[ObjName(loc.input.bucket, p)] = EmptyFile}

\* the input the last inference request was sent for
LastPosted == trace[CHOOSE i \in Steps("post") : \A j \in Steps("post") : j <= i].arg

\* C22: the inference request sent for an empty input file holds the
\* envelope {"instances":[]}, and a request that completed has sent one for
\* every empty input file.
C22_EmptyFileSubmitted ==
    /\ (tc.op = "formatOutput" /\ Steps("post") # {} /\ LastPosted \in EmptyInputs)
          => tc.src = EmptyEnvelope
    /\ (pc = "done" /\ resp.status = 200)
          => \A p \in EmptyInputs : PostsFor(p) # {}

\* a request whose input a is an empty file has completed, the envelope of
\* a being the last one sent
C22_Witness ==
    /\ pc = "done" /\ resp.status = 200
    /\ Steps("post") # {} /\ LastPosted \in EmptyInputs
    /\ tc.op = "formatOutput" /\ tc.src = EmptyEnvelope

\* C23: formatInput of a file with an empty line between or after its
\* well-formed JSON lines returns without error the envelope of the values of
\* the non-empty lines, in order.
C23_EmptyLinesSkipped ==
    tc.op = "formatInput/blank" =>
        /\ tc.out.err = ""
        /\ tc.out.out = <<"{", DQ>> \o KeyInstances \o <<DQ, ":", "[">>
                        \o Join([i \in 1..Len(tc.src) |-> LineSamples[tc.src[i]].value],
                                <<",">>)
                        \o <<"]", "}">>

\* what the code does with every such file: it fails and returns no envelope
C23_EmptyLineRefused ==
    tc.op = "formatInput/blank" => (tc.out.err # "" /\ tc.out.out = <<>>)

\* the keys of the bucket that start with path, without the bucket name
KeysWithPrefix(path) ==
    {From(k, Len(BucketB) + 1) :
        k \in {x \in DOMAIN store : HasPrefix(x, ObjName(BucketB, path))}}

\* the list holds one entry for each key of keys: root + RelativePath +
\* FileName is the key, RelativePath is empty or ends with "/", FileName is
\* not empty and holds no "/"
ListsExactly(list, keys, root) ==
    /\ Len(list) = Cardinality(keys)
    /\ {root \o list[i].RelativePath \o list[i].FileName : i \in 1..Len(list)} = keys
    /\ \A i \in 1..Len(list) :
          /\ list[i].RelativePath = <<>> \/ HasSuffix(list[i].RelativePath, Slash)
          /\ list[i].FileName # <<>> /\ "/" \notin Range(list[i].FileName)

\* C24 as stated: listGcsFiles returns one entry for each key that starts
\* with the prefix, is not the prefix and does not end in "/", with root +
\* RelativePath + FileName the key and the two parts well shaped.
C24_OneEntryPerKey ==
    tc.op = "listGcsFiles" =>
        ListsExactly(tc.out,
                     {k \in KeysWithPrefix(tc.src) : k # tc.src /\ ~HasSuffix(k, Slash)},
                     To(tc.src, LastIndex(tc.src, "/") + 1))

\* C24 amended: the same for each key that starts with the prefix and does
\* not end in "/", the key equal to the prefix included.
C24_OneEntryPerFileKey ==
    tc.op = "listGcsFiles" =>
        ListsExactly(tc.out,
                     {k \in KeysWithPrefix(tc.src) : ~HasSuffix(k, Slash)},
                     To(tc.src, LastIndex(tc.src, "/") + 1))

\* the prefix i/ was listed in a bucket that holds the keys i/, i/a, i/b/,
\* i/b/c and i/q/c
C24_Witness ==
    /\ tc.op = "listGcsFiles" /\ tc.src = <<"i", "/">>
    /\ InputKeys \subseteq DOMAIN store
    /\ Len(tc.out) = 3

\* the goroutine is at a send into the channel, the channel is full, and the
\* handler, the only receiver, has returned: the send never completes
ReaderStuck ==
    /\ pc = "done"
    /\ reader.pc \in {"sendFalse", "sendTrue"}
    /\ Len(started) >= 1

\* C25: whatever startAndWaitTF returned, once the handler has returned and
\* the child was killed, the goroutine that reads its stderr is not left
\* blocked on a send into the channel started.
C25_ReaderTerminates ==
    (pc = "done" /\ proc \in {"killed", "exited"}) => ~ReaderStuck

====
